---------------------------- MODULE Spec2Model ----------------------------
(***************************************************************************)
(* Viewport-driven asset streaming of the globe plugin.                    *)
(*                                                                         *)
(*  - TreeLoadScheduler (src/src/functions/TreeLoadScheduler.ts): the      *)
(*    versioned LOD queue that loads tree models around the camera.        *)
(*  - WMSThrottler (src/src/functions/WMSThrottler.ts): the concurrency-   *)
(*    capped, coalescing, retrying loader of WMS tiles.                    *)
(*  - loadTreesIncremental (src/src/functions/loadTrees.ts): the tree      *)
(*    loader that creates its queue one model at a time.                   *)
(*  - ensureNear (src/unnamed/part_001): the altitude-aware tree loader    *)
(*    that shows the trees within the horizontal budget of the camera.     *)
(*  - TreeLoadScheduler with a model pool (src/unnamed/part_007): the     *)
(*    scheduler that removes in deferred batches and reuses models.        *)
(*                                                                         *)
(* Each component has its own variables and its own specifications; a      *)
(* specification of one component leaves the other components' variables   *)
(* at their initial values. The tree loaders read the same camera.         *)
(***************************************************************************)
EXTENDS Integers, Sequences, FiniteSets, TLC

None == "none"

Min(S) == CHOOSE x \in S : \A y \in S : x <= y

Abs(n) == IF n < 0 THEN -n ELSE n

\* Maps (JavaScript Map): functions whose domain is the set of keys present.
EmptyMap == [k \in {} |-> None]

Has(m, k) == k \in DOMAIN m

MapSet(m, k, v) == [x \in DOMAIN m \cup {k} |-> IF x = k THEN v ELSE m[x]]

MapDelete(m, ks) == [x \in DOMAIN m \ ks |-> m[x]]

MapValues(m) == { m[k] : k \in DOMAIN m }

(***************************************************************************)
(*                              Variables                                  *)
(***************************************************************************)
\* TreeLoadScheduler
VARIABLES
  index,        \* RBush contents: the set of indexed TreeMeta
  live,         \* Map<fid, LiveTree>: fid -> [model, url, lod]
  scene,        \* scene.primitives: the set of models attached to the scene
  queue,        \* QueueItem[]
  pending,      \* the QueueItems whose Model.fromGltfAsync has not settled yet
  loading,      \* the loading counter
  visible,
  moving,
  stableTimer,  \* the number of pending timeouts set by onMove
  lodVersion,
  drainTimer,   \* TRUE while a setTimeout(() => this.processQueue()) is pending
  listening,    \* TRUE while onMove is registered on camera.moveStart
  camera,       \* scene.camera.positionWC, as a pose
  lastKeep      \* the keep set of the most recent updateLOD pass that built one

treeVars == <<index, live, scene, queue, pending, loading, visible, moving,
              stableTimer, lodVersion, drainTimer, listening, camera,
              lastKeep>>

\* WMSThrottler
VARIABLES
  wmsQueue,        \* queue: the heap array of queued WMSRequest objects (by id)
  requests,        \* the queued WMSRequest objects: id -> fields
  queuedRequests,  \* Map<WMSKey, WMSRequest>: key -> id
  inflight,        \* Map<WMSKey, InflightEntry>: key -> [controller, promises]
  activeCount,
  paused,
  resumeTimer,     \* TRUE while the timeout of resumeAfter is pending
  timerOlderThanPause, \* TRUE while that timeout is older than a pause()
                   \* call that has returned
  cameraMoving,
  fetches,         \* fetchWMS calls whose completion handlers have not run:
                   \* id -> [key, phase, attempt, aborted]
  promises,        \* the promises returned by request(), in call order
  starts,          \* ids of the requests for which fetchWMS has been called
  now              \* Date.now() at the latest call of request()

wmsVars == <<wmsQueue, requests, queuedRequests, inflight, activeCount, paused,
             resumeTimer, timerOlderThanPause, cameraMoving, fetches, promises,
             starts, now>>

\* loadTreesIncremental
VARIABLES
  incLive,      \* live: Map<fid, {model, url}>
  incScene,     \* scene.primitives: the models this loader has attached
  treeQueue,    \* treeQueue
  queueLock,    \* TRUE while a processQueueSequential loop is running
  batch,        \* the items of the current batch the for loop has not reached
  creating,     \* <<item>> while the createTree of item is awaited, or <<>>
  lock,         \* the busy flag of updateLOD
  lastPos,      \* <<lastLon, lastLat>> as <<position>>, or <<>> while undefined
  incCycles,    \* the number of accepted cycles so far
  clearedAll    \* TRUE while the latest accepted cycle was one that removed
                \* every tree because the camera was above INC_RADIUS_M

incVars == <<incLive, incScene, treeQueue, queueLock, batch, creating, lock,
             lastPos, incCycles, clearedAll>>

\* ensureNear
VARIABLES
  nearLive,     \* live: Map<fid, Model>, as fid -> [show]
  nearTasks,    \* the Model.fromGltfAsync calls of step 8 that have not
                \* settled: [fid, cycle]
  nearPhase,    \* where ensureNear is suspended: "idle", "create" (awaiting
                \* Promise.all) or "sample" (awaiting sampleTerrainMostDetailed)
  inProgress,
  lastCam,      \* <<lastCamLon, lastCamLat>> as <<position>>, or <<>> while NaN
  layerVisible, \* layer.get('visible')
  nearCycles    \* the number of accepted cycles so far

nearVars == <<nearLive, nearTasks, nearPhase, inProgress, lastCam,
              layerVisible, nearCycles>>

\* TreeLoadScheduler with a model pool (src/unnamed/part_007): the fields
\* above, and
VARIABLES
  liveOrder,         \* the keys of live in insertion order (Map iteration)
  modelPool,         \* Map<poolKey, Model[]>: <<url, lod>> -> models
  removeTimers,      \* the pending setTimeout(removeBatch): what is left of
                     \* toRemove, one entry per timeout, oldest first
  made,              \* every Model that Model.fromGltfAsync has constructed
  destroyed,         \* the models for which isDestroyed() is true
  destroyPrimitives  \* scene.primitives.destroyPrimitives

poolVars == <<liveOrder, modelPool, removeTimers, made, destroyed,
              destroyPrimitives>>

vars == <<treeVars, wmsVars, incVars, nearVars, poolVars>>

\* What an action of one component leaves alone.
notTreeVars == <<wmsVars, incVars, nearVars, poolVars>>
notWMSVars == <<treeVars, incVars, nearVars, poolVars>>
notIncVars == <<treeVars, wmsVars, nearVars, poolVars>>
notNearVars == <<treeVars, wmsVars, incVars, poolVars>>
notPoolVars == <<wmsVars, incVars, nearVars>>

(***************************************************************************)
(*                         TreeLoadScheduler                               *)
(***************************************************************************)

\* ---------------- Tunables (TreeLoadScheduler.ts:15-20) ----------------
RADIUS_M == 700
HIGH_DISTANCE == 70
MEDIUM_DISTANCE == 200
MAX_CONCURRENT == 3

\* ---------------- Bounds of the model ----------------
\* lodVersion is an unbounded counter in the code: enqueueing passes stop here.
MaxVersion == 3


\* ---------------- Inputs ----------------
\* TreeMeta records. Positions are metres along a meridian, so that the
\* bounding box of queryTrees (RADIUS_M / 111320 degrees) is never narrower
\* than RADIUS_M. Placements 1 and 2 share a fid: loadTrees builds fid as
\* String(f.getId()), which is "undefined" for every feature without an id.
\* Placement 3 has no high-detail URL.
TreeMetas ==
  { [id |-> 1, fid |-> "a", pos |-> 0,   height |-> 0,
     urlHigh |-> "H", urlMedium |-> "M", urlLow |-> "L"],
    [id |-> 2, fid |-> "a", pos |-> 0,   height |-> 0,
     urlHigh |-> "H", urlMedium |-> "M", urlLow |-> "L"],
    [id |-> 3, fid |-> "b", pos |-> 100, height |-> 0,
     urlHigh |-> None, urlMedium |-> "M", urlLow |-> "L"] }

MetaOf(i) == CHOOSE t \in TreeMetas : t.id = i

\* What the host passes to addTrees: every feature with its own fid, or two
\* features sharing one.
Indexes == { {MetaOf(1), MetaOf(3)}, {MetaOf(1), MetaOf(2), MetaOf(3)} }

Fids == { t.fid : t \in TreeMetas }

\* Camera poses (position along the meridian, height) read by updateLOD.
Poses == { [x |-> 0, h |-> 0], [x |-> 150, h |-> 0], [x |-> 0, h |-> 800] }

\* Where the camera is when the scheduler is constructed.
InitialPose == [x |-> 0, h |-> 0]

\* Camera positions that put placement 1 at each distance on either side of
\* the two thresholds and at the edge of the streaming radius (placement 3 is
\* 100 m further along).
LodDistances == {0, 50, 69, 70, 71, 150, 199, 200, 201, 500, 700}

LodPoses == { [x |-> d, h |-> 0] : d \in LodDistances }

\* ---------------- Helpers ----------------
\* distance(): haversine, here the distance along the meridian.
distance(x1, x2) == Abs(x1 - x2)

\* queryTrees: the hits {t, d} within RADIUS_M whose height is not more than
\* RADIUS_M below the camera, in the order the index returns them.
InRange(pose, t) ==
  /\ distance(pose.x, t.pos) <= RADIUS_M
  /\ t.height >= pose.h - RADIUS_M

queryTrees(pose) ==
  LET ids  == { t.id : t \in { u \in index : InRange(pose, u) } }
      all  == [i \in 1..Cardinality(TreeMetas) |-> i]
      kept == SelectSeq(all, LAMBDA i : i \in ids)
  IN  [k \in 1..Len(kept) |->
         [t |-> MetaOf(kept[k]), d |-> distance(pose.x, MetaOf(kept[k]).pos)]]

\* a ?? b
Coalesce(a, b) == IF a # None THEN a ELSE b

\* resolveLOD with the thresholds compared by <=.
resolveLODInclusive(t, d) ==
  IF d <= HIGH_DISTANCE
    THEN [url |-> Coalesce(t.urlHigh, t.urlLow), lod |-> "high"]
  ELSE IF d <= MEDIUM_DISTANCE
    THEN [url |-> Coalesce(t.urlMedium, t.urlLow), lod |-> "medium"]
  ELSE [url |-> t.urlLow, lod |-> "low"]

resolveLOD(t, d) ==
  IF d < HIGH_DISTANCE
    THEN [url |-> Coalesce(t.urlHigh, t.urlLow), lod |-> "high"]
  ELSE IF d < MEDIUM_DISTANCE
    THEN [url |-> Coalesce(t.urlMedium, t.urlLow), lod |-> "medium"]
  ELSE [url |-> t.urlLow, lod |-> "low"]

\* removeOutOfRange(keep): the pair <<live, scene>> after it.
removeOutOfRange(keep, lv, sc) ==
  LET gone == { f \in DOMAIN lv : f \notin keep }
  IN  << MapDelete(lv, gone), sc \ { lv[f].model : f \in gone } >>

\* enqueueMissing(hits): the new queue, its items stamped with version.
enqueueMissing(hits, lv, version) ==
  LET item(h) == [meta |-> h.t.id, fid |-> h.t.fid,
                  url |-> resolveLOD(h.t, h.d).url,
                  lod |-> resolveLOD(h.t, h.d).lod,
                  version |-> version]
      items == [k \in 1..Len(hits) |-> item(hits[k])]
      same(it) == /\ Has(lv, it.fid)
                  /\ lv[it.fid].url = it.url
                  /\ lv[it.fid].lod = it.lod
  IN  SelectSeq(items, LAMBDA it : ~same(it))

\* processQueue that starts one load more than MAX_CONCURRENT allows.
RECURSIVE processQueueOverfills(_, _, _)
processQueueOverfills(q, l, p) ==
  IF Len(q) > 0 /\ l <= MAX_CONCURRENT
    THEN processQueueOverfills(Tail(q), l + 1, p \cup {Head(q)})
    ELSE <<q, l, p>>

\* processQueue: the while loop, as <<queue, loading, pending>> after it.
RECURSIVE processQueue(_, _, _)
processQueue(q, l, p) ==
  IF Len(q) > 0 /\ l < MAX_CONCURRENT
    THEN processQueue(Tail(q), l + 1, p \cup {Head(q)})
    ELSE <<q, l, p>>

\* A Model constructed by Model.fromGltfAsync for an item: a new object,
\* distinct from every model the scheduler still refers to.
NewModel(fid, lv, sc) ==
  LET used == { m.n : m \in { x \in sc : x.fid = fid } }
              \cup (IF Has(lv, fid) THEN {lv[fid].model.n} ELSE {})
  IN  [fid |-> fid, n |-> Min({ k \in 1..(Cardinality(used) + 1) : k \notin used })]

\* loadTree that leaves the previous model of the tree in the scene.
loadTreeKeepsPrevious(item, lv, sc, vis, ver) ==
  IF ~vis \/ item.version # ver
    THEN <<lv, sc>>
  ELSE
    IF Has(lv, item.fid) /\ lv[item.fid].lod = item.lod /\ lv[item.fid].url = item.url
      THEN <<lv, sc>>
      ELSE << MapSet(lv, item.fid,
                     [model |-> NewModel(item.fid, lv, sc), url |-> item.url,
                      lod |-> item.lod]),
              sc \cup {NewModel(item.fid, lv, sc)} >>

\* loadTree after the await (lines 217-237): <<live, scene>> after it.
loadTree(item, lv, sc, vis, ver) ==
  IF ~vis \/ item.version # ver
    THEN <<lv, sc>>
  ELSE
    LET has      == Has(lv, item.fid)
        existing == lv[item.fid]
        model    == NewModel(item.fid, lv, sc)
        sc1      == IF has THEN sc \ {existing.model} ELSE sc
    IN  IF has /\ existing.lod = item.lod /\ existing.url = item.url
          THEN <<lv, sc1>>
          ELSE << MapSet(lv, item.fid,
                         [model |-> model, url |-> item.url, lod |-> item.lod]),
                  sc1 \cup {model} >>

\* updateLOD whose enqueueing pass appends to the queue it finds.
updateLODKeepsQueue(pose, mv) ==
  IF ~visible
    THEN UNCHANGED <<live, scene, queue, pending, loading, lodVersion, lastKeep>>
  ELSE
    LET hits == queryTrees(pose)
        keep == { hits[k].t.fid : k \in 1..Len(hits) }
        rem  == removeOutOfRange(keep, live, scene)
    IN  IF mv
          THEN /\ live' = rem[1]
               /\ scene' = rem[2]
               /\ lastKeep' = keep
               /\ UNCHANGED <<queue, pending, loading, lodVersion>>
          ELSE
            LET q1  == queue \o enqueueMissing(hits, rem[1], lodVersion + 1)
                run == processQueue(q1, loading, pending)
            IN  /\ lodVersion < MaxVersion
                /\ lastKeep' = keep
                /\ live' = rem[1]
                /\ scene' = rem[2]
                /\ lodVersion' = lodVersion + 1
                /\ queue' = run[1]
                /\ loading' = run[2]
                /\ pending' = run[3]

\* updateLOD with the camera at pose (the caller has set moving to mv).
updateLOD(pose, mv) ==
  IF ~visible
    THEN UNCHANGED <<live, scene, queue, pending, loading, lodVersion, lastKeep>>
  ELSE
    LET hits == queryTrees(pose)
        keep == { hits[k].t.fid : k \in 1..Len(hits) }
        rem  == removeOutOfRange(keep, live, scene)
    IN  IF mv
          THEN /\ live' = rem[1]
               /\ scene' = rem[2]
               /\ lastKeep' = keep
               /\ UNCHANGED <<queue, pending, loading, lodVersion>>
          ELSE
            LET q1  == enqueueMissing(hits, rem[1], lodVersion + 1)
                run == processQueue(q1, loading, pending)
            IN  /\ lodVersion < MaxVersion
                /\ lastKeep' = keep
                /\ live' = rem[1]
                /\ scene' = rem[2]
                /\ lodVersion' = lodVersion + 1
                /\ queue' = run[1]
                /\ loading' = run[2]
                /\ pending' = run[3]

\* ---------------- Init ----------------
TreeInit ==
  /\ index = {}
  /\ live = EmptyMap
  /\ scene = {}
  /\ queue = <<>>
  /\ pending = {}
  /\ loading = 0
  /\ visible = TRUE
  /\ moving = FALSE
  /\ stableTimer = 0
  /\ lodVersion = 0
  /\ drainTimer = FALSE
  /\ listening = TRUE
  /\ camera = InitialPose
  /\ lastKeep = {}

\* ---------------- Actions ----------------
\* addTrees(metas), which the host calls once
AddTrees(metas) ==
  /\ index = {}
  /\ index' = metas
  /\ UNCHANGED <<live, scene, queue, pending, loading, visible, moving,
                 stableTimer, lodVersion, drainTimer, listening>>
  /\ UNCHANGED <<camera, lastKeep>>
  /\ UNCHANGED notTreeVars

\* The camera is moved to another pose (by the user or the host). The
\* moveStart event is raised by the scene later, in a render frame.
CameraMoves(pose) ==
  /\ pose # camera
  /\ camera' = pose
  /\ UNCHANGED <<index, live, scene, queue, pending, loading, visible, moving,
                 stableTimer, lodVersion, drainTimer, listening>>
  /\ UNCHANGED lastKeep
  /\ UNCHANGED notTreeVars

\* start()
Start ==
  /\ updateLOD(camera, moving)
  /\ UNCHANGED <<index, visible, moving, stableTimer, drainTimer, listening>>
  /\ UNCHANGED camera
  /\ UNCHANGED notTreeVars

\* destroy()
Destroy ==
  /\ listening' = FALSE
  /\ scene' = scene \ { e.model : e \in MapValues(live) }
  /\ live' = EmptyMap
  /\ UNCHANGED <<index, queue, pending, loading, visible, moving, stableTimer,
                 lodVersion, drainTimer>>
  /\ UNCHANGED <<camera, lastKeep>>
  /\ UNCHANGED notTreeVars

\* setVisible that leaves the queue as it is.
SetVisibleKeepsQueue(v) ==
  /\ visible' = v
  /\ UNCHANGED <<index, live, scene, queue, pending, loading, moving,
                 stableTimer, lodVersion, drainTimer, listening>>
  /\ UNCHANGED <<camera, lastKeep>>
  /\ UNCHANGED notTreeVars

\* setVisible(v)
SetVisible(v) ==
  /\ visible' = v
  /\ queue' = IF ~v THEN <<>> ELSE queue
  /\ UNCHANGED <<index, live, scene, pending, loading, moving, stableTimer,
                 lodVersion, drainTimer, listening>>
  /\ UNCHANGED <<camera, lastKeep>>
  /\ UNCHANGED notTreeVars

\* clearTimeout(this.stableTimer) with n timeouts pending: the handle is that
\* of the timeout set last, which is cancelled if it is still pending.
clearTimeout(n) == IF n > 0 THEN n - 1 ELSE 0

\* onMove that does not cancel the timeout of the previous event.
OnMoveKeepsTimer ==
  /\ listening
  /\ moving' = TRUE
  /\ stableTimer' = stableTimer + 1
  /\ UNCHANGED <<index, live, scene, queue, pending, loading, visible,
                 lodVersion, drainTimer, listening>>
  /\ UNCHANGED <<camera, lastKeep>>
  /\ UNCHANGED notTreeVars

\* onMove: a camera moveStart event
OnMove ==
  /\ listening
  /\ moving' = TRUE
  /\ stableTimer' = clearTimeout(stableTimer) + 1
  /\ UNCHANGED <<index, live, scene, queue, pending, loading, visible,
                 lodVersion, drainTimer, listening>>
  /\ UNCHANGED <<camera, lastKeep>>
  /\ UNCHANGED notTreeVars

\* the timeout set by onMove fires
StableTimerFires ==
  /\ stableTimer > 0
  /\ stableTimer' = stableTimer - 1
  /\ moving' = FALSE
  /\ updateLOD(camera, FALSE)
  /\ UNCHANGED <<index, visible, drainTimer, listening>>
  /\ UNCHANGED camera
  /\ UNCHANGED notTreeVars

\* Model.fromGltfAsync resolves for item: the rest of loadTree runs, then
\* processQueue's finally.
LoadSucceeds(item) ==
  /\ item \in pending
  /\ LET r == loadTree(item, live, scene, visible, lodVersion)
     IN  /\ live' = r[1]
         /\ scene' = r[2]
  /\ pending' = pending \ {item}
  /\ loading' = loading - 1
  /\ drainTimer' = TRUE
  /\ UNCHANGED <<index, queue, visible, moving, stableTimer, lodVersion, listening>>
  /\ UNCHANGED <<camera, lastKeep>>
  /\ UNCHANGED notTreeVars

\* Model.fromGltfAsync rejects for item: .catch(() => {}), then the finally.
LoadFails(item) ==
  /\ item \in pending
  /\ pending' = pending \ {item}
  /\ loading' = loading - 1
  /\ drainTimer' = TRUE
  /\ UNCHANGED <<index, live, scene, queue, visible, moving, stableTimer,
                 lodVersion, listening>>
  /\ UNCHANGED <<camera, lastKeep>>
  /\ UNCHANGED notTreeVars

\* The timeout fires but processQueue is not run.
DrainTimerIdle ==
  /\ drainTimer
  /\ drainTimer' = FALSE
  /\ UNCHANGED <<index, live, scene, queue, pending, loading, visible, moving,
                 stableTimer, lodVersion, listening>>
  /\ UNCHANGED <<camera, lastKeep>>
  /\ UNCHANGED notTreeVars

\* A setTimeout(() => this.processQueue(), QUEUE_THROTTLE_MS) fires. Several
\* pending timeouts are folded into one: a processQueue that runs with no load
\* completion since the previous run finds the queue empty or loading at
\* MAX_CONCURRENT and does nothing.
DrainTimerFires ==
  /\ drainTimer
  /\ drainTimer' = FALSE
  /\ LET run == processQueue(queue, loading, pending)
     IN  /\ queue' = run[1]
         /\ loading' = run[2]
         /\ pending' = run[3]
  /\ UNCHANGED <<index, live, scene, visible, moving, stableTimer, lodVersion,
                 listening>>
  /\ UNCHANGED <<camera, lastKeep>>
  /\ UNCHANGED notTreeVars

TreeNext ==
  \/ \E metas \in Indexes : AddTrees(metas)
  \/ \E pose \in Poses : CameraMoves(pose)
  \/ Start
  \/ Destroy
  \/ \E v \in BOOLEAN : SetVisible(v)
  \/ OnMove
  \/ StableTimerFires
  \/ \E item \in pending : LoadSucceeds(item)
  \/ \E item \in pending : LoadFails(item)
  \/ DrainTimerFires

\* The diff step repeated: the placements and the camera are set up before
\* the first pass and left alone afterwards; start() runs the passes, and
\* loads complete and the queue drains in between.
TreeDiffNext ==
  \/ lodVersion = 0 /\ \E metas \in Indexes : AddTrees(metas)
  \/ lodVersion = 0 /\ \E pose \in Poses : CameraMoves(pose)
  \/ Start
  \/ \E item \in pending : LoadSucceeds(item)
  \/ DrainTimerFires

\* Passes that supersede one another: the camera may move between passes,
\* but not after the last one (the pass that takes lodVersion to MaxVersion);
\* no moveStart event, setVisible, destroy or load failure.
TreeSettleNext ==
  \/ lodVersion = 0 /\ \E metas \in Indexes : AddTrees(metas)
  \/ lodVersion < MaxVersion /\ \E pose \in Poses : CameraMoves(pose)
  \/ Start
  \/ \E item \in pending : LoadSucceeds(item)
  \/ DrainTimerFires

\* Passes at the distances of LodPoses: the camera is put at a distance
\* before the first pass, the passes resolve every placement in range, the
\* loads complete.
TreeLODNext ==
  \/ lodVersion = 0 /\ \E metas \in Indexes : AddTrees(metas)
  \/ lodVersion = 0 /\ \E pose \in LodPoses : CameraMoves(pose)
  \/ Start
  \/ \E item \in pending : LoadSucceeds(item)
  \/ DrainTimerFires

(***************************************************************************)
(*            TreeLoadScheduler with a model pool (part_007)               *)
(***************************************************************************)
\* The class of src/unnamed/part_007 has the fields, the tunables and the
\* camera handling of TreeLoadScheduler; it removes out-of-range trees in
\* deferred batches and keeps the removed models in modelPool for reuse.

\* ---------------- Tunables ----------------
QUEUE_BATCH_SIZE == 5
BATCH_SIZE == 8
MAX_HITS == 1000

\* ---------------- Inputs ----------------
\* One tree more than a removal batch holds, all at the origin.
PoolFids == <<"t1", "t2", "t3", "t4", "t5", "t6", "t7", "t8", "t9">>

PoolMetas ==
  { [id |-> i, fid |-> PoolFids[i], pos |-> 0, height |-> 0,
     urlHigh |-> "H", urlMedium |-> "M", urlLow |-> "L"] : i \in 1..(BATCH_SIZE + 1) }

\* The camera over the trees, 100 m away (medium detail) and out of range.
PoolPoses == { [x |-> 0, h |-> 0], [x |-> 100, h |-> 0], [x |-> 800, h |-> 0] }

\* ---------------- Helpers ----------------
\* What the scheduler's methods read and write of the models:
\* [lv: live, ord: its insertion order, sc: scene.primitives, pool, ds: the
\* destroyed models].
PoolState ==
  [lv |-> live, ord |-> liveOrder, sc |-> scene, pool |-> modelPool,
   ds |-> destroyed]

\* `${url}|${lod}`
poolKey(url, lod) == <<url, lod>>

\* if (!modelPool.has(key)) modelPool.set(key, []); modelPool.get(key).push(m)
poolPush(pool, key, m) ==
  MapSet(pool, key, (IF Has(pool, key) THEN pool[key] ELSE <<>>) \o <<m>>)

\* scene.primitives.remove(m): a primitive the collection contains is taken
\* out, and destroyed when the collection destroys its primitives.
primitivesRemove(st, m) ==
  [st EXCEPT !.sc = @ \ {m},
             !.ds = IF destroyPrimitives /\ m \in st.sc THEN @ \cup {m} ELSE @]

\* The hits of updateLOD: queryTrees, the trees in front of the camera (here
\* all of them), closest first, at most MAX_HITS.
pooledHits(pose) ==
  LET ids    == { t.id : t \in { u \in index : InRange(pose, u) } }
      all    == [i \in 1..Cardinality(PoolMetas) |-> i]
      kept   == SelectSeq(all, LAMBDA i : i \in ids)
      metaOf(i) == CHOOSE t \in PoolMetas : t.id = i
      hits   == [k \in 1..Len(kept) |->
                   [t |-> metaOf(kept[k]),
                    d |-> distance(pose.x, metaOf(kept[k]).pos)]]
      sorted == SortSeq(hits, LAMBDA a, b :
                   a.d < b.d \/ (a.d = b.d /\ a.t.id < b.t.id))
  IN  IF Len(sorted) > MAX_HITS THEN SubSeq(sorted, 1, MAX_HITS) ELSE sorted

\* One iteration of removeBatch for the entry e = [fid, item] of toRemove.
removeEntry(st, e) ==
  LET s1 == IF e.item.model \notin st.ds
              THEN [primitivesRemove(st, e.item.model) EXCEPT
                      !.pool = poolPush(@, poolKey(e.item.url, e.item.lod),
                                        e.item.model)]
              ELSE st
  IN  [s1 EXCEPT !.lv = MapDelete(@, {e.fid}),
                 !.ord = SelectSeq(@, LAMBDA f : f # e.fid)]

\* removeBatch: up to BATCH_SIZE entries, as <<state, entries left>>.
RECURSIVE removeBatch(_, _, _)
removeBatch(entries, i, st) ==
  IF i < BATCH_SIZE /\ entries # <<>>
    THEN removeBatch(Tail(entries), i + 1, removeEntry(st, Head(entries)))
    ELSE <<st, entries>>

\* removeOutOfRange(keep): the first batch runs at once.
pooledRemoveOutOfRange(keep, st) ==
  LET gone     == SelectSeq(st.ord, LAMBDA f : f \notin keep)
      toRemove == [k \in 1..Len(gone) |-> [fid |-> gone[k], item |-> st.lv[gone[k]]]]
  IN  removeBatch(toRemove, 0, st)

\* enqueueMissing, with the pooled placements.
pooledEnqueueMissing(hits, lv, version) ==
  LET item(h) == [meta |-> h.t.id, fid |-> h.t.fid,
                  url |-> resolveLOD(h.t, h.d).url,
                  lod |-> resolveLOD(h.t, h.d).lod,
                  version |-> version]
      items == [k \in 1..Len(hits) |-> item(hits[k])]
      same(it) == /\ Has(lv, it.fid)
                  /\ lv[it.fid].url = it.url
                  /\ lv[it.fid].lod = it.lod
  IN  SelectSeq(items, LAMBDA it : ~same(it))

\* loadTree lines 263-273: pops candidates until one is not destroyed, as
\* << <<model>> or <<>>, pool >>.
RECURSIVE takeFromPool(_, _, _)
takeFromPool(pool, key, ds) ==
  IF ~Has(pool, key) \/ pool[key] = <<>>
    THEN << <<>>, pool >>
    ELSE LET candidate == pool[key][Len(pool[key])]
             popped    == [pool EXCEPT ![key] = SubSeq(@, 1, Len(@) - 1)]
         IN  IF candidate \notin ds
               THEN << <<candidate>>, popped >>
               ELSE takeFromPool(popped, key, ds)

\* loadTree from line 283 on, with the model it took or constructed.
pooledLoadTree(item, model, st, vis, ver) ==
  IF ~vis \/ item.version # ver
    THEN IF model \notin st.ds
           THEN [st EXCEPT !.pool = poolPush(@, poolKey(item.url, item.lod), model)]
           ELSE st
  ELSE
    LET has      == Has(st.lv, item.fid)
        existing == st.lv[item.fid]
        s1 == IF has /\ existing.model \notin st.ds
                THEN [primitivesRemove(st, existing.model) EXCEPT
                        !.pool = poolPush(@, poolKey(existing.url, existing.lod),
                                          existing.model)]
                ELSE st
    IN  IF has /\ existing.lod = item.lod /\ existing.url = item.url
          THEN s1
          ELSE [s1 EXCEPT
                  !.sc = IF model \notin s1.ds THEN @ \cup {model} ELSE @,
                  !.lv = MapSet(@, item.fid,
                                [model |-> model, url |-> item.url, lod |-> item.lod]),
                  !.ord = IF has THEN @ ELSE Append(@, item.fid)]

\* processQueue: the while loop. A loadTree that finds a model in the pool
\* runs to its end inside the loop; its finally callback runs after the loop.
\* Result: [q, l, p, st, timer], loading after the callbacks.
RECURSIVE pooledProcessQueue(_, _, _, _, _, _, _)
pooledProcessQueue(q, l, p, st, ver, batchN, synced) ==
  IF q # <<>> /\ l < MAX_CONCURRENT /\ batchN < QUEUE_BATCH_SIZE
    THEN LET item == Head(q)
             took == takeFromPool(st.pool, poolKey(item.url, item.lod), st.ds)
             s1   == [st EXCEPT !.pool = took[2]]
         IN  IF took[1] # <<>>
               THEN pooledProcessQueue(Tail(q), l + 1, p,
                      pooledLoadTree(item, took[1][1], s1, visible, ver),
                      ver, batchN + 1, synced + 1)
               ELSE pooledProcessQueue(Tail(q), l + 1, p \cup {item}, s1,
                      ver, batchN + 1, synced)
    ELSE [q |-> q, l |-> l - synced, p |-> p, st |-> st,
          timer |-> (q # <<>> /\ l < MAX_CONCURRENT) \/ synced > 0]

\* The model state after a method.
PoolStateBecomes(st) ==
  /\ live' = st.lv
  /\ liveOrder' = st.ord
  /\ scene' = st.sc
  /\ modelPool' = st.pool
  /\ destroyed' = st.ds

\* updateLOD with the camera at pose (the caller has set moving to mv).
pooledUpdateLOD(pose, mv) ==
  IF ~visible
    THEN UNCHANGED <<live, liveOrder, scene, modelPool, destroyed, removeTimers,
                     queue, pending, loading, lodVersion, drainTimer, lastKeep>>
  ELSE
    LET hits == pooledHits(pose)
        keep == { hits[k].t.fid : k \in 1..Len(hits) }
        rem  == pooledRemoveOutOfRange(keep, PoolState)
    IN  /\ lastKeep' = keep
        /\ removeTimers' = IF rem[2] # <<>> THEN Append(removeTimers, rem[2])
                                           ELSE removeTimers
        /\ IF mv
             THEN /\ PoolStateBecomes(rem[1])
                  /\ UNCHANGED <<queue, pending, loading, lodVersion, drainTimer>>
             ELSE
               LET q1  == pooledEnqueueMissing(hits, rem[1].lv, lodVersion + 1)
                   run == pooledProcessQueue(q1, loading, pending, rem[1],
                                             lodVersion + 1, 0, 0)
               IN  /\ lodVersion < MaxVersion
                   /\ lodVersion' = lodVersion + 1
                   /\ PoolStateBecomes(run.st)
                   /\ queue' = run.q
                   /\ loading' = run.l
                   /\ pending' = run.p
                   /\ drainTimer' = (drainTimer \/ run.timer)

\* ---------------- Init ----------------
PoolFieldsInit ==
  /\ liveOrder = <<>>
  /\ modelPool = EmptyMap
  /\ removeTimers = <<>>
  /\ made = {}
  /\ destroyed = {}

\* Cesium's default for scene.primitives
PoolInit == PoolFieldsInit /\ destroyPrimitives = TRUE

\* ---------------- Actions ----------------
\* start()
PooledStart ==
  /\ pooledUpdateLOD(camera, moving)
  /\ UNCHANGED <<index, visible, moving, stableTimer, listening, camera>>
  /\ UNCHANGED <<made, destroyPrimitives>>
  /\ UNCHANGED notPoolVars

\* the timeout set by onMove fires
PooledStableTimerFires ==
  /\ stableTimer > 0
  /\ stableTimer' = stableTimer - 1
  /\ moving' = FALSE
  /\ pooledUpdateLOD(camera, FALSE)
  /\ UNCHANGED <<index, visible, listening, camera>>
  /\ UNCHANGED <<made, destroyPrimitives>>
  /\ UNCHANGED notPoolVars

\* Model.fromGltfAsync resolves for item with a new model: the rest of
\* loadTree runs, then processQueue's finally.
PooledLoadSucceeds(item) ==
  /\ item \in pending
  /\ LET model == [fid |-> item.fid,
                   n |-> 1 + Cardinality({ m \in made : m.fid = item.fid })]
     IN  /\ made' = made \cup {model}
         /\ PoolStateBecomes(pooledLoadTree(item, model, PoolState, visible, lodVersion))
  /\ pending' = pending \ {item}
  /\ loading' = loading - 1
  /\ drainTimer' = TRUE
  /\ UNCHANGED <<index, queue, visible, moving, stableTimer, lodVersion,
                 listening, camera, lastKeep>>
  /\ UNCHANGED <<removeTimers, destroyPrimitives>>
  /\ UNCHANGED notPoolVars

\* A setTimeout(() => this.processQueue(), QUEUE_THROTTLE_MS) fires (several
\* pending timeouts are folded into one, as for DrainTimerFires).
PooledDrainTimerFires ==
  /\ drainTimer
  /\ LET run == pooledProcessQueue(queue, loading, pending, PoolState,
                                   lodVersion, 0, 0)
     IN  /\ PoolStateBecomes(run.st)
         /\ queue' = run.q
         /\ loading' = run.l
         /\ pending' = run.p
         /\ drainTimer' = run.timer
  /\ UNCHANGED <<index, visible, moving, stableTimer, lodVersion, listening,
                 camera, lastKeep>>
  /\ UNCHANGED <<removeTimers, made, destroyPrimitives>>
  /\ UNCHANGED notPoolVars

\* The oldest setTimeout(removeBatch, BATCH_DELAY) fires.
RemoveBatchFires ==
  /\ removeTimers # <<>>
  /\ LET r == removeBatch(Head(removeTimers), 0, PoolState)
     IN  /\ PoolStateBecomes(r[1])
         /\ removeTimers' = IF r[2] # <<>> THEN Append(Tail(removeTimers), r[2])
                                         ELSE Tail(removeTimers)
  /\ UNCHANGED <<index, queue, pending, loading, visible, moving, stableTimer,
                 lodVersion, drainTimer, listening, camera, lastKeep>>
  /\ UNCHANGED <<made, destroyPrimitives>>
  /\ UNCHANGED notPoolVars

\* The load that was started first among those in flight.
OldestPending ==
  CHOOSE it \in pending :
    \A o \in pending :
      it.version < o.version \/ (it.version = o.version /\ it.meta <= o.meta)

\* Nothing is queued or loading.
Quiet == queue = <<>> /\ loading = 0

\* The host and the user act while nothing is queued or loading, and loads
\* settle in the order they were started; the timeouts fire at any time.
PoolNext ==
  \/ AddTrees(PoolMetas)
  \/ Quiet /\ \E pose \in PoolPoses : CameraMoves(pose)
  \/ Quiet /\ PooledStart
  \/ Quiet /\ OnMove
  \/ PooledStableTimerFires
  \/ pending # {} /\ PooledLoadSucceeds(OldestPending)
  \/ PooledDrainTimerFires
  \/ RemoveBatchFires

(***************************************************************************)
(*                        loadTreesIncremental                             *)
(***************************************************************************)
\* ---------------- Tunables (loadTrees.ts) ----------------
INC_RADIUS_M == 700
INC_MEDIUM_DISTANCE == 300
INC_HIGH_DISTANCE == 120
MOVE_THRESHOLD == 70
CHUNK_CREATE == 40

\* ---------------- Bounds ----------------
\* Accepted cycles per behaviour.
MaxCycles == 3

\* ---------------- Inputs ----------------
\* The features of the layer, each with its own id. modelCfg gives every
\* species the three URLs.
IncTrees ==
  { [id |-> 1, fid |-> "a", pos |-> 0,
     urlHigh |-> "H", urlMedium |-> "M", urlLow |-> "L"],
    [id |-> 2, fid |-> "b", pos |-> 100,
     urlHigh |-> "H", urlMedium |-> "M", urlLow |-> "L"],
    [id |-> 3, fid |-> "c", pos |-> 800,
     urlHigh |-> "H", urlMedium |-> "M", urlLow |-> "L"] }

IncMetaOf(i) == CHOOSE t \in IncTrees : t.id = i

\* Camera poses: position along the meridian and height above the terrain
\* (scene.globe.getHeight is 0 everywhere).
IncPoses ==
  { [x |-> 0, h |-> 0], [x |-> 50, h |-> 0], [x |-> 150, h |-> 0],
    [x |-> 0, h |-> 700], [x |-> 0, h |-> 800] }

\* ---------------- Helpers ----------------
\* dMeters(): haversine, here the distance along the meridian.
dMeters(x1, x2) == Abs(x1 - x2)

\* The LOD URL updateLOD chooses for t at distance d.
lodUrl(t, d) ==
  IF d < INC_HIGH_DISTANCE THEN t.urlHigh
  ELSE IF d < INC_MEDIUM_DISTANCE THEN t.urlMedium
  ELSE t.urlLow

\* index.search(...).map(...).filter(...): the placements within INC_RADIUS_M,
\* in the order the index returns them.
IncHits(pose) ==
  LET ids  == { t.id : t \in { u \in IncTrees : dMeters(pose.x, u.pos) <= INC_RADIUS_M } }
      all  == [i \in 1..Cardinality(IncTrees) |-> i]
      kept == SelectSeq(all, LAMBDA i : i \in ids)
  IN  [k \in 1..Len(kept) |-> IncMetaOf(kept[k])]

\* The loop over hits that builds newQueue (lines 274-313): live, the scene
\* and newQueue after it.
RECURSIVE buildQueue(_, _, _, _, _, _)
buildQueue(hits, pose, lv, sc, queued, nq) ==
  IF hits = <<>>
    THEN [live |-> lv, scene |-> sc, queue |-> nq]
  ELSE
    LET t     == Head(hits)
        url   == lodUrl(t, dMeters(pose.x, t.pos))
        qItem == [id |-> t.id, fid |-> t.fid, pos |-> t.pos, url |-> url]
        push  == IF t.fid \in queued THEN nq ELSE Append(nq, qItem)
    IN  IF ~Has(lv, t.fid)
          THEN buildQueue(Tail(hits), pose, lv, sc, queued \cup {t.fid}, push)
        ELSE IF lv[t.fid].url # url
          THEN buildQueue(Tail(hits), pose, MapDelete(lv, {t.fid}),
                          sc \ {lv[t.fid].model}, queued \cup {t.fid}, push)
        ELSE buildQueue(Tail(hits), pose, lv, sc, queued, nq)

\* The for loop over a batch, from item b[1] to the next await createTree
\* or to the end of the batch.
RECURSIVE forBatch(_, _, _)
forBatch(b, lv, pose) ==
  IF b = <<>>
    THEN [creating |-> <<>>, batch |-> <<>>]
  ELSE
    LET t == Head(b)
    IN  IF Has(lv, t.fid) /\ lv[t.fid].url = t.url
          THEN forBatch(Tail(b), lv, pose)
        ELSE IF dMeters(pose.x, t.pos) > INC_RADIUS_M
          THEN forBatch(Tail(b), lv, pose)
        ELSE [creating |-> <<t>>, batch |-> Tail(b)]

\* The while loop from its test to the next await, or to its exit.
whileQueue(q, lv, pose) ==
  IF Len(q) > 0
    THEN LET n == IF Len(q) < CHUNK_CREATE THEN Len(q) ELSE CHUNK_CREATE
             r == forBatch(SubSeq(q, 1, n), lv, pose)
         IN  [queue |-> SubSeq(q, n + 1, Len(q)), queueLock |-> TRUE,
              creating |-> r.creating, batch |-> r.batch]
    ELSE [queue |-> q, queueLock |-> FALSE, creating |-> <<>>, batch |-> <<>>]

\* processQueueSequential that does not look at queueLock.
processQueueSequentialIgnoresLock(q, lv, pose) ==
  IF Len(q) = 0
    THEN [queue |-> q, queueLock |-> queueLock, creating |-> creating,
          batch |-> batch]
    ELSE whileQueue(q, lv, pose)

\* processQueueSequential() called with queue q.
processQueueSequential(q, lv, pose) ==
  IF queueLock \/ Len(q) = 0
    THEN [queue |-> q, queueLock |-> queueLock, creating |-> creating,
          batch |-> batch]
    ELSE whileQueue(q, lv, pose)

\* ---------------- Init ----------------
\* The features are indexed and the initial pass is about to run.
IncInit ==
  /\ incLive = EmptyMap
  /\ incScene = {}
  /\ treeQueue = <<>>
  /\ queueLock = FALSE
  /\ batch = <<>>
  /\ creating = <<>>
  /\ lock = FALSE
  /\ lastPos = <<>>
  /\ incCycles = 0
  /\ clearedAll = FALSE

\* ---------------- Actions ----------------
\* updateLOD that records the position of a rejected cycle too.
IncUpdateLODRecordsRejected ==
  /\ UNCHANGED notIncVars
  /\ IF lock
       THEN UNCHANGED incVars
     ELSE IF lastPos # <<>> /\ dMeters(camera.x, lastPos[1]) < MOVE_THRESHOLD
       THEN /\ lastPos' = <<camera.x>>
            /\ UNCHANGED <<incLive, incScene, treeQueue, queueLock, batch,
                           creating, lock, incCycles, clearedAll>>
     ELSE
       /\ incCycles < MaxCycles
       /\ incCycles' = incCycles + 1
       /\ clearedAll' = (camera.h > INC_RADIUS_M)
       /\ lastPos' = <<camera.x>>
       /\ lock' = FALSE
       /\ IF camera.h > INC_RADIUS_M
            THEN /\ incScene' = incScene \ { e.model : e \in MapValues(incLive) }
                 /\ incLive' = EmptyMap
                 /\ treeQueue' = <<>>
                 /\ UNCHANGED <<queueLock, batch, creating>>
            ELSE
              LET hits == IncHits(camera)
                  keep == { hits[k].fid : k \in 1..Len(hits) }
                  rem  == removeOutOfRange(keep, incLive, incScene)
                  diff == buildQueue(hits, camera, rem[1], rem[2], {}, <<>>)
                  run  == processQueueSequential(diff.queue, diff.live, camera)
              IN  /\ incLive' = diff.live
                  /\ incScene' = diff.scene
                  /\ treeQueue' = run.queue
                  /\ queueLock' = run.queueLock
                  /\ creating' = run.creating
                  /\ batch' = run.batch

\* updateLOD(): the initial pass or a camera.changed event past the throttle.
\* The function has no await, so it runs to its end in one step.
IncUpdateLOD ==
  /\ UNCHANGED notIncVars
  /\ IF lock
       THEN UNCHANGED incVars
     ELSE IF lastPos # <<>> /\ dMeters(camera.x, lastPos[1]) < MOVE_THRESHOLD
       THEN UNCHANGED incVars
     ELSE
       /\ incCycles < MaxCycles
       /\ incCycles' = incCycles + 1
       /\ clearedAll' = (camera.h > INC_RADIUS_M)
       /\ lastPos' = <<camera.x>>
       /\ lock' = FALSE
       /\ IF camera.h > INC_RADIUS_M
            THEN /\ incScene' = incScene \ { e.model : e \in MapValues(incLive) }
                 /\ incLive' = EmptyMap
                 /\ treeQueue' = <<>>
                 /\ UNCHANGED <<queueLock, batch, creating>>
            ELSE
              LET hits == IncHits(camera)
                  keep == { hits[k].fid : k \in 1..Len(hits) }
                  rem  == removeOutOfRange(keep, incLive, incScene)
                  diff == buildQueue(hits, camera, rem[1], rem[2], {}, <<>>)
                  run  == processQueueSequential(diff.queue, diff.live, camera)
              IN  /\ incLive' = diff.live
                  /\ incScene' = diff.scene
                  /\ treeQueue' = run.queue
                  /\ queueLock' = run.queueLock
                  /\ creating' = run.creating
                  /\ batch' = run.batch

\* Model.fromGltfAsync resolves in createTree: the model is attached and
\* registered, and the for loop goes on.
CreateSucceeds ==
  /\ creating # <<>>
  /\ LET t     == creating[1]
         model == NewModel(t.fid, incLive, incScene)
         lv    == MapSet(incLive, t.fid, [model |-> model, url |-> t.url])
         r     == forBatch(batch, lv, camera)
     IN  /\ incScene' = incScene \cup {model}
         /\ incLive' = lv
         /\ creating' = r.creating
         /\ batch' = r.batch
  /\ UNCHANGED <<treeQueue, queueLock, lock, lastPos, incCycles,
                 clearedAll>>
  /\ UNCHANGED notIncVars

\* A rejection in createTree that ends the for loop over the batch.
CreateFailsDropsBatch ==
  /\ creating # <<>>
  /\ creating' = <<>>
  /\ batch' = <<>>
  /\ UNCHANGED <<incLive, incScene, treeQueue, queueLock, lock, lastPos, incCycles,
                 clearedAll>>
  /\ UNCHANGED notIncVars

\* Model.fromGltfAsync rejects in createTree: the catch swallows it and the
\* for loop goes on.
CreateFails ==
  /\ creating # <<>>
  /\ LET r == forBatch(batch, incLive, camera)
     IN  /\ creating' = r.creating
         /\ batch' = r.batch
  /\ UNCHANGED <<incLive, incScene, treeQueue, queueLock, lock, lastPos, incCycles,
                 clearedAll>>
  /\ UNCHANGED notIncVars

\* requestAnimationFrame fires after a batch: the while loop tests the queue.
FrameFires ==
  /\ queueLock
  /\ creating = <<>>
  /\ LET run == whileQueue(treeQueue, incLive, camera)
     IN  /\ treeQueue' = run.queue
         /\ queueLock' = run.queueLock
         /\ creating' = run.creating
         /\ batch' = run.batch
  /\ UNCHANGED <<incLive, incScene, lock, lastPos, incCycles, clearedAll>>
  /\ UNCHANGED notIncVars

IncNext ==
  \/ \E pose \in IncPoses : CameraMoves(pose)
  \/ IncUpdateLOD
  \/ CreateSucceeds
  \/ CreateFails
  \/ FrameFires

\* The camera creeps along the meridian: every move is shorter than
\* MOVE_THRESHOLD.
CreepPoses == { [x |-> p, h |-> 0] : p \in {0, 50, 100, 150} }

IncCreepNext ==
  \/ \E pose \in CreepPoses :
       dMeters(pose.x, camera.x) < MOVE_THRESHOLD /\ CameraMoves(pose)
  \/ IncUpdateLOD
  \/ CreateSucceeds
  \/ CreateFails
  \/ FrameFires

(***************************************************************************)
(*                             ensureNear                                  *)
(***************************************************************************)
\* ---------------- Tunables (part_001) ----------------
NEAR_RADIUS_M == 700
MOVE_THRESHOLD_M == 100
MAX_LIVE_MODELS == 100000

\* ---------------- Inputs ----------------
\* allTrees: the features of the layer, by their distance along the meridian.
NearTrees ==
  { [fid |-> "a", pos |-> 196], [fid |-> "b", pos |-> 561],
    [fid |-> "c", pos |-> 700] }

\* Heights of the camera above the terrain at the view centre
\* (scene.globe.getHeight is 0). Below NEAR_RADIUS_M they are the heights
\* at which the horizontal budget is a whole number of metres.
NearHeights == {-50, 0, 196, 420, 560, 672, 700, 800}

\* The camera above the first placements at each height.
BudgetPoses == { [x |-> 0, h |-> a] : a \in NearHeights }

\* Camera poses: view centre along the meridian and height.
NearPoses ==
  { [x |-> 0, h |-> 0], [x |-> 150, h |-> 0], [x |-> 0, h |-> 420],
    [x |-> 150, h |-> 700], [x |-> 0, h |-> 800] }

\* ---------------- Helpers ----------------
\* geodesicDistanceMeters(): here the distance along the meridian.
geodesicDistanceMeters(x1, x2) == Abs(x1 - x2)

\* Math.max(0, cam.height - terrainH)
camAGL(pose) == IF pose.h > 0 THEN pose.h ELSE 0

\* Math.sqrt, for the arguments whose root is a whole number.
sqrt(n) == CHOOSE k \in 0..NEAR_RADIUS_M : k * k = n

\* The horizontal budget that ignores the height of the camera.
horizMaxFlat(agl) == NEAR_RADIUS_M

\* horizMax for a camera agl above the terrain (agl < NEAR_RADIUS_M).
horizMax(agl) == sqrt(NEAR_RADIUS_M * NEAR_RADIUS_M - agl * agl)

\* Steps 4 and 5: the target, closest first.
nearTarget(pose) ==
  LET in == { t \in NearTrees :
                geodesicDistanceMeters(pose.x, t.pos) <= horizMax(camAGL(pose)) }
      d(t) == geodesicDistanceMeters(pose.x, t.pos)
      RECURSIVE sorted(_)
      sorted(S) ==
        IF S = {} THEN <<>>
        ELSE LET t == CHOOSE u \in S :
                        \A v \in S : d(u) < d(v) \/ (d(u) = d(v) /\ u.pos <= v.pos)
             IN  <<t>> \o sorted(S \ {t})
  IN  sorted(in)

\* Step 7: the loop over the target, as the need list after it.
RECURSIVE nearNeed(_, _, _)
nearNeed(target, lv, need) ==
  IF target = <<>> THEN need
  ELSE
    LET t == Head(target)
    IN  IF Has(lv, t.fid)
          THEN nearNeed(Tail(target), lv, need)
        ELSE IF Cardinality(DOMAIN lv) + Len(need) + 1 >= MAX_LIVE_MODELS
          THEN Append(need, t)
        ELSE nearNeed(Tail(target), lv, Append(need, t))

\* need.slice(0, Math.max(0, MAX_LIVE_MODELS - live.size))
nearSlice(need, lv) ==
  LET room == IF MAX_LIVE_MODELS - Cardinality(DOMAIN lv) > 0
                THEN MAX_LIVE_MODELS - Cardinality(DOMAIN lv) ELSE 0
  IN  SubSeq(need, 1, IF Len(need) < room THEN Len(need) ELSE room)

\* ---------------- Init ----------------
\* fetchAllOnce has filled allTrees and the first ensureNear is about to run.
NearInit ==
  /\ nearLive = EmptyMap
  /\ nearTasks = {}
  /\ nearPhase = "idle"
  /\ inProgress = FALSE
  /\ lastCam = <<>>
  /\ layerVisible = TRUE
  /\ nearCycles = 0

\* ---------------- Actions ----------------
\* ensureNear(scene), from its call to its first await or to its return.
EnsureNear ==
  /\ UNCHANGED notNearVars
  /\ UNCHANGED layerVisible
  /\ IF inProgress
       THEN UNCHANGED <<nearLive, nearTasks, nearPhase, inProgress, lastCam, nearCycles>>
     ELSE IF lastCam # <<>> /\ geodesicDistanceMeters(lastCam[1], camera.x) < MOVE_THRESHOLD_M
       THEN UNCHANGED <<nearLive, nearTasks, nearPhase, inProgress, lastCam, nearCycles>>
     ELSE
       /\ nearCycles < MaxCycles
       /\ nearCycles' = nearCycles + 1
       /\ lastCam' = <<camera.x>>
       /\ IF camAGL(camera) >= NEAR_RADIUS_M
            THEN /\ nearLive' = [f \in DOMAIN nearLive |-> [show |-> FALSE]]
                 /\ UNCHANGED <<nearTasks, nearPhase, inProgress>>
            ELSE
              LET target == nearTarget(camera)
                  fids   == { target[k].fid : k \in 1..Len(target) }
                  lv     == [f \in DOMAIN nearLive |->
                               IF f \in fids THEN [show |-> layerVisible]
                                             ELSE [show |-> FALSE]]
                  need   == nearSlice(nearNeed(target, nearLive, <<>>), nearLive)
              IN  /\ nearLive' = lv
                  /\ nearTasks' = nearTasks \cup
                       { [fid |-> need[k].fid, cycle |-> nearCycles + 1] : k \in 1..Len(need) }
                  /\ nearPhase' = IF need = <<>> THEN "idle" ELSE "create"
                  /\ inProgress' = (need # <<>>)

\* Model.fromGltfAsync resolves for a task of step 8: the model is shown as
\* the layer is, registered and attached. When it is the last one the
\* Promise.all of the running cycle waits for, the cycle goes on to step 9.
NearCreateSucceeds(task) ==
  /\ task \in nearTasks
  /\ nearTasks' = nearTasks \ {task}
  /\ nearLive' = MapSet(nearLive, task.fid, [show |-> layerVisible])
  /\ IF /\ nearPhase = "create"
        /\ task.cycle = nearCycles
        /\ \A u \in nearTasks \ {task} : u.cycle # nearCycles
       THEN nearPhase' = "sample"
       ELSE UNCHANGED nearPhase
  /\ UNCHANGED <<inProgress, lastCam, layerVisible, nearCycles>>
  /\ UNCHANGED notNearVars

\* Model.fromGltfAsync rejects for a task of step 8: the Promise.all of the
\* running cycle rejects at once, ensureNear throws and its finally runs,
\* while the other tasks of the cycle go on.
NearCreateFails(task) ==
  /\ task \in nearTasks
  /\ nearTasks' = nearTasks \ {task}
  /\ IF nearPhase = "create" /\ task.cycle = nearCycles
       THEN /\ nearPhase' = "idle"
            /\ inProgress' = FALSE
       ELSE UNCHANGED <<nearPhase, inProgress>>
  /\ UNCHANGED <<nearLive, lastCam, layerVisible, nearCycles>>
  /\ UNCHANGED notNearVars

\* sampleTerrainMostDetailed settles (the trees are fewer than a chunk): the
\* heights are written, or the rejection leaves ensureNear; finally runs.
NearSampleSettles ==
  /\ nearPhase = "sample"
  /\ nearPhase' = "idle"
  /\ inProgress' = FALSE
  /\ UNCHANGED <<nearLive, nearTasks, lastCam, layerVisible, nearCycles>>
  /\ UNCHANGED notNearVars

\* The user switches the layer on or off.
SetLayerVisible(v) ==
  /\ layerVisible # v
  /\ layerVisible' = v
  /\ UNCHANGED <<nearLive, nearTasks, nearPhase, inProgress, lastCam, nearCycles>>
  /\ UNCHANGED notNearVars

NearNext ==
  \/ \E pose \in NearPoses : CameraMoves(pose)
  \/ EnsureNear
  \/ \E task \in nearTasks : NearCreateSucceeds(task)
  \/ \E task \in nearTasks : NearCreateFails(task)
  \/ NearSampleSettles
  \/ \E v \in BOOLEAN : SetLayerVisible(v)

\* ensureNear at each height of NearHeights: the camera is put at a height
\* before the first cycle.
NearBudgetNext ==
  \/ nearCycles = 0 /\ \E pose \in BudgetPoses : CameraMoves(pose)
  \/ EnsureNear
  \/ \E task \in nearTasks : NearCreateSucceeds(task)
  \/ \E task \in nearTasks : NearCreateFails(task)
  \/ NearSampleSettles
  \/ \E v \in BOOLEAN : SetLayerVisible(v)

\* ---------------- Either loader ----------------
\* A layer is streamed by one loader or the other: the one that acts first
\* is the one in use.
TreeUntouched ==
  /\ index = {} /\ live = EmptyMap /\ scene = {} /\ queue = <<>>
  /\ pending = {} /\ loading = 0 /\ visible /\ ~moving /\ stableTimer = 0
  /\ lodVersion = 0 /\ ~drainTimer /\ listening

IncUntouched == incCycles = 0 /\ camera \in Poses

LoadersNext ==
  \/ IncUntouched /\ \E metas \in Indexes : AddTrees(metas)
  \/ IncUntouched /\ index # {} /\ \E pose \in Poses : CameraMoves(pose)
  \/ IncUntouched /\ Start
  \/ IncUntouched /\ Destroy
  \/ IncUntouched /\ \E v \in BOOLEAN : SetVisible(v)
  \/ IncUntouched /\ OnMove
  \/ IncUntouched /\ StableTimerFires
  \/ IncUntouched /\ \E item \in pending : LoadSucceeds(item)
  \/ IncUntouched /\ \E item \in pending : LoadFails(item)
  \/ IncUntouched /\ DrainTimerFires
  \/ TreeUntouched /\ \E pose \in IncPoses : CameraMoves(pose)
  \/ TreeUntouched /\ IncUpdateLOD
  \/ TreeUntouched /\ CreateSucceeds
  \/ TreeUntouched /\ CreateFails
  \/ TreeUntouched /\ FrameFires

\* The two loaders that look at the height of the camera above the ground:
\* loadTreesIncremental.updateLOD and ensureNear, one or the other in use.
NearUntouched == nearCycles = 0 /\ layerVisible

AltitudeNext ==
  \/ NearUntouched /\ \E pose \in IncPoses : CameraMoves(pose)
  \/ NearUntouched /\ IncUpdateLOD
  \/ NearUntouched /\ CreateSucceeds
  \/ NearUntouched /\ CreateFails
  \/ NearUntouched /\ FrameFires
  \/ incCycles = 0 /\ \E pose \in NearPoses : CameraMoves(pose)
  \/ incCycles = 0 /\ EnsureNear
  \/ incCycles = 0 /\ \E task \in nearTasks : NearCreateSucceeds(task)
  \/ incCycles = 0 /\ \E task \in nearTasks : NearCreateFails(task)
  \/ incCycles = 0 /\ NearSampleSettles
  \/ incCycles = 0 /\ \E v \in BOOLEAN : SetLayerVisible(v)

(***************************************************************************)
(*                            WMSThrottler                                 *)
(***************************************************************************)

\* ---------------- Constructor options (WMSThrottler.ts:36-39) ----------------
\* opts.maxConcurrentIdle and opts.maxConcurrentMoving of the modelled instance.
maxConcurrentIdle == 2
maxConcurrentMoving == 1
\* fetchWMS (line 176)
maxRetries == 2

\* ---------------- Bounds of the model ----------------
\* request() calls made in one behaviour.
MaxCalls == 3
\* Date.now() advances at most this many milliseconds in one behaviour.
MaxNow == 1
\* Milliseconds that may have passed between two calls of request().
Elapsed == {0, 1}
\* Calls of request() under the fair specification.
MaxFairCalls == 2
\* Tiles requested in one burst.
MaxBurst == 5
\* Calls of request() while the queue is built up.
MaxQueueCalls == 4


\* ---------------- Inputs ----------------
\* (url, params) pairs passed to request(); params in the caller's order.
\* The first two differ in the order of their params only.
WMSInputs ==
  { [url |-> "u", params |-> <<"BBOX=1", "LAYERS=x">>],
    [url |-> "u", params |-> <<"LAYERS=x", "BBOX=1">>],
    [url |-> "v", params |-> <<"BBOX=1">>] }

\* The inputs above and two more keys.
QueueInputs ==
  WMSInputs \cup { [url |-> "w", params |-> <<>>], [url |-> "x", params |-> <<>>] }

\* Priority hints passed to request() (lower is more urgent).
Priorities == {1, 2}

\* The priority of a call of request() that passes none.
DefaultPriority == 100

\* The n-th tile of a burst: every tile has a key of its own.
BurstInput(n) == [url |-> "tile", params |-> << <<"BBOX", n>> >>]

\* buildKey: the url and the params sorted by name.
buildKey(url, params) ==
  [url |-> url, params |-> { params[i] : i \in 1..Len(params) }]

\* ---------------- The state a handler works on ----------------
Here ==
  [queue |-> wmsQueue, requests |-> requests, queuedRequests |-> queuedRequests,
   inflight |-> inflight, activeCount |-> activeCount, fetches |-> fetches,
   promises |-> promises, starts |-> starts]

Commit(s) ==
  /\ wmsQueue' = s.queue
  /\ requests' = s.requests
  /\ queuedRequests' = s.queuedRequests
  /\ inflight' = s.inflight
  /\ activeCount' = s.activeCount
  /\ fetches' = s.fetches
  /\ promises' = s.promises
  /\ starts' = s.starts

Range(seq) == { seq[i] : i \in 1..Len(seq) }

\* queue[i], with the code's indices from 0
At(q, i) == q[i + 1]

\* ---------------- The heap (lines 212-286) ----------------
compare(rs, a, b) ==
  IF rs[a].priority # rs[b].priority
    THEN rs[a].priority - rs[b].priority
    ELSE rs[b].createdAt - rs[a].createdAt

swap(s, i, j) ==
  LET a == At(s.queue, i)
      b == At(s.queue, j)
  IN  [s EXCEPT !.queue = [@ EXCEPT ![i + 1] = b, ![j + 1] = a],
                !.requests = [@ EXCEPT ![b].heapIndex = i, ![a].heapIndex = j]]

RECURSIVE bubbleUp(_, _)
bubbleUp(s, idx) ==
  IF idx > 0
    THEN LET parent == (idx - 1) \div 2
         IN  IF compare(s.requests, At(s.queue, idx), At(s.queue, parent)) >= 0
               THEN s
               ELSE bubbleUp(swap(s, idx, parent), parent)
    ELSE s

RECURSIVE bubbleDown(_, _)
bubbleDown(s, idx) ==
  LET length == Len(s.queue)
      left   == 2 * idx + 1
      right  == left + 1
      s1     == IF left < length
                   /\ compare(s.requests, At(s.queue, left), At(s.queue, idx)) < 0
                  THEN left ELSE idx
      smallest == IF right < length
                     /\ compare(s.requests, At(s.queue, right), At(s.queue, s1)) < 0
                    THEN right ELSE s1
  IN  IF smallest = idx
        THEN s
        ELSE bubbleDown(swap(s, idx, smallest), smallest)

\* reheapify that leaves the request where it is.
reheapifyInPlace(s, idx) == s

reheapify(s, idx) == bubbleDown(bubbleUp(s, idx), idx)

\* pushRequest(req): req is the new request's fields, heapIndex still -1
pushRequest(s, req) ==
  LET at == Len(s.queue)
      s1 == [s EXCEPT !.requests = MapSet(@, req.id, [req EXCEPT !.heapIndex = at]),
                      !.queue = Append(@, req.id),
                      !.queuedRequests = MapSet(@, req.key, req.id)]
  IN  bubbleUp(s1, at)

\* popRequest() on a non-empty queue: [s |-> the state after it, top |-> the
\* request returned]. The returned request is no longer queued, so it leaves
\* requests.
popRequest(s) ==
  LET top  == At(s.queue, 0)
      last == At(s.queue, Len(s.queue) - 1)
      cut  == [s EXCEPT !.queue = SubSeq(@, 1, Len(@) - 1)]
      s1   == IF Len(cut.queue) > 0
                THEN bubbleDown([cut EXCEPT !.queue[1] = last,
                                            !.requests[last].heapIndex = 0], 0)
                ELSE cut
  IN  [s   |-> [s1 EXCEPT !.queuedRequests = MapDelete(@, {s.requests[top].key}),
                          !.requests = MapDelete(@, {top})],
       top |-> s.requests[top]]

\* ---------------- Promises ----------------
\* A promise returned by request(): the key it asked for, its state, and what
\* settled it (by: the fetch, 0 for cancelAll; err: the error it was rejected
\* with). group is the first caller of the run of overlapping calls for the
\* key that the call belongs to.
NewPromise(key, group) ==
  [key |-> key, group |-> group, state |-> "pending", by |-> 0, err |-> None]

\* p.resolve / p.reject for every p of ps: a settled promise stays as it is.
settle(ps, who, state, by, err) ==
  [p \in DOMAIN ps |->
     IF p \in who /\ ps[p].state = "pending"
       THEN [ps[p] EXCEPT !.state = state, !.by = by, !.err = err]
       ELSE ps[p]]

Pending(ps) == { p \in DOMAIN ps : ps[p].state = "pending" }

\* ---------------- processQueue (lines 134-173) ----------------
currentLimit(mv) == IF mv THEN maxConcurrentMoving ELSE maxConcurrentIdle

\* lines 148-153: the inflight entry, the slot, and the call of fetchWMS
startFetch(s, req) ==
  [s EXCEPT !.inflight = MapSet(@, req.key,
                [controller |-> req.id, promises |-> <<req.id>> \o req.waiters]),
            !.activeCount = @ + 1,
            !.fetches = MapSet(@, req.id,
                [key |-> req.key, phase |-> "fetch", attempt |-> 0,
                 aborted |-> FALSE]),
            !.starts = @ \cup {req.id}]

\* The loop with its bound off by one.
RECURSIVE processQueueLoopOverLimit(_, _)
processQueueLoopOverLimit(s, mv) ==
  IF s.activeCount <= currentLimit(mv) /\ Len(s.queue) > 0
    THEN LET r == popRequest(s)
         IN  IF Has(r.s.inflight, r.top.key)
               THEN processQueueLoopOverLimit(r.s, mv)
               ELSE processQueueLoopOverLimit(startFetch(r.s, r.top), mv)
    ELSE s

RECURSIVE processQueueLoop(_, _)
processQueueLoop(s, mv) ==
  IF s.activeCount < currentLimit(mv) /\ Len(s.queue) > 0
    THEN LET r == popRequest(s)
         IN  IF Has(r.s.inflight, r.top.key)
               THEN processQueueLoop(r.s, mv)
               ELSE processQueueLoop(startFetch(r.s, r.top), mv)
    ELSE s

wmsProcessQueue(s, isPaused, mv) ==
  IF isPaused THEN s ELSE processQueueLoop(s, mv)

\* The handlers chained on fetchWMS (lines 154-171) for fetch f: ok with the
\* bitmap, or not ok with the error err.
\* The handlers without the processQueue() call of the finally block.
settledWithoutDrain(s, f, ok, err) ==
  LET key   == s.fetches[f].key
      s1 == IF Has(s.inflight, key)
              THEN [s EXCEPT
                     !.promises = settle(@, Range(s.inflight[key].promises),
                                         IF ok THEN "resolved" ELSE "rejected",
                                         f, err),
                     !.inflight = MapDelete(@, {key})]
              ELSE s
  IN  [s1 EXCEPT !.activeCount = @ - 1, !.fetches = MapDelete(@, {f})]

settled(s, f, ok, err) ==
  LET key   == s.fetches[f].key
      s1 == IF Has(s.inflight, key)
              THEN [s EXCEPT
                     !.promises = settle(@, Range(s.inflight[key].promises),
                                         IF ok THEN "resolved" ELSE "rejected",
                                         f, err),
                     !.inflight = MapDelete(@, {key})]
              ELSE s
      s2 == [s1 EXCEPT !.activeCount = @ - 1, !.fetches = MapDelete(@, {f})]
  IN  wmsProcessQueue(s2, paused, cameraMoving)

\* ---------------- request (lines 56-96) ----------------
\* request that does not look for the key in inflight.
requestSkipsInflight(s, url, params, priority, at) ==
  LET key   == buildKey(url, params)
      p     == Len(s.promises) + 1
      peers == { q \in Pending(s.promises) : s.promises[q].key = key }
      group == IF peers = {} THEN p
               ELSE Min({ s.promises[q].group : q \in peers })
      s0    == [s EXCEPT !.promises = Append(@, NewPromise(key, group))]
  IN  IF Has(s0.queuedRequests, key)
        THEN LET existing == s0.queuedRequests[key]
                 previousPriority == s0.requests[existing].priority
                 newPriority == Min({previousPriority, priority})
                 s1 == [s0 EXCEPT !.requests[existing].priority = newPriority,
                                  !.requests[existing].waiters = Append(@, p)]
             IN  IF s1.requests[existing].heapIndex >= 0
                    /\ newPriority # previousPriority
                   THEN reheapify(s1, s1.requests[existing].heapIndex)
                   ELSE s1
      ELSE wmsProcessQueue(
             pushRequest(s0, [id |-> p, key |-> key, priority |-> priority,
                              waiters |-> <<>>, createdAt |-> at,
                              heapIndex |-> -1]),
             paused, cameraMoving)

request(s, url, params, priority, at) ==
  LET key   == buildKey(url, params)
      p     == Len(s.promises) + 1
      peers == { q \in Pending(s.promises) : s.promises[q].key = key }
      group == IF peers = {} THEN p
               ELSE Min({ s.promises[q].group : q \in peers })
      s0    == [s EXCEPT !.promises = Append(@, NewPromise(key, group))]
  IN  IF Has(s0.inflight, key)
        THEN [s0 EXCEPT !.inflight[key].promises = Append(@, p)]
      ELSE IF Has(s0.queuedRequests, key)
        THEN LET existing == s0.queuedRequests[key]
                 previousPriority == s0.requests[existing].priority
                 newPriority == Min({previousPriority, priority})
                 s1 == [s0 EXCEPT !.requests[existing].priority = newPriority,
                                  !.requests[existing].waiters = Append(@, p)]
             IN  IF s1.requests[existing].heapIndex >= 0
                    /\ newPriority # previousPriority
                   THEN reheapify(s1, s1.requests[existing].heapIndex)
                   ELSE s1
      ELSE wmsProcessQueue(
             pushRequest(s0, [id |-> p, key |-> key, priority |-> priority,
                              waiters |-> <<>>, createdAt |-> at,
                              heapIndex |-> -1]),
             paused, cameraMoving)

\* ---------------- cancelAll (lines 115-132) ----------------
cancelAll(s) ==
  LET aborted == { s.inflight[k].controller : k \in DOMAIN s.inflight }
      waiting == UNION { Range(s.inflight[k].promises) : k \in DOMAIN s.inflight }
      queued  == UNION { {r} \cup Range(s.requests[r].waiters) : r \in Range(s.queue) }
  IN  [s EXCEPT
        !.fetches = [f \in DOMAIN @ |->
                       IF f \in aborted THEN [@[f] EXCEPT !.aborted = TRUE] ELSE @[f]],
        !.promises = settle(@, waiting \cup queued, "rejected", 0, "Cancelled"),
        !.inflight = EmptyMap,
        !.requests = MapDelete(@, Range(s.queue)),
        !.queue = <<>>,
        !.queuedRequests = EmptyMap,
        !.activeCount = 0]

\* ---------------- Init ----------------
WMSConstructed(mv) ==
  /\ wmsQueue = <<>>
  /\ requests = EmptyMap
  /\ queuedRequests = EmptyMap
  /\ inflight = EmptyMap
  /\ activeCount = 0
  /\ paused = FALSE
  /\ resumeTimer = FALSE
  /\ timerOlderThanPause = FALSE
  /\ cameraMoving = mv
  /\ fetches = EmptyMap
  /\ promises = <<>>
  /\ starts = {}
  /\ now = 0

WMSInit == WMSConstructed(FALSE)

\* ---------------- Actions ----------------
\* request(url, params, priority), called at Date.now() = at
Request(c, priority, at) ==
  /\ at <= MaxNow
  /\ now' = at
  /\ Commit(request(Here, c.url, c.params, priority, at))
  /\ UNCHANGED <<paused, resumeTimer, timerOlderThanPause, cameraMoving>>
  /\ UNCHANGED notWMSVars

\* setCameraMoving(moving)
SetCameraMoving(mv) ==
  /\ cameraMoving' = mv
  /\ Commit(wmsProcessQueue(Here, paused, mv))
  /\ UNCHANGED <<paused, resumeTimer, timerOlderThanPause, now>>
  /\ UNCHANGED notWMSVars

\* pause()
Pause ==
  /\ IF paused
       THEN UNCHANGED <<paused, resumeTimer>> /\ timerOlderThanPause' = resumeTimer
       ELSE paused' = TRUE /\ resumeTimer' = FALSE /\ timerOlderThanPause' = FALSE
  /\ UNCHANGED <<wmsQueue, requests, queuedRequests, inflight, activeCount,
                 cameraMoving, fetches, promises, starts, now>>
  /\ UNCHANGED notWMSVars

\* resume()
resume ==
  IF ~paused
    THEN UNCHANGED <<paused, wmsQueue, requests, queuedRequests, inflight,
                     activeCount, fetches, promises, starts>>
    ELSE /\ paused' = FALSE
         /\ Commit(wmsProcessQueue(Here, FALSE, cameraMoving))

Resume ==
  /\ resume
  /\ UNCHANGED <<resumeTimer, timerOlderThanPause, cameraMoving, now>>
  /\ UNCHANGED notWMSVars

\* resumeAfter(ms)
ResumeAfter ==
  /\ resumeTimer' = TRUE
  /\ timerOlderThanPause' = FALSE
  /\ UNCHANGED <<wmsQueue, requests, queuedRequests, inflight, activeCount,
                 paused, cameraMoving, fetches, promises, starts, now>>
  /\ UNCHANGED notWMSVars

\* the timeout set by resumeAfter fires
ResumeTimerFires ==
  /\ resumeTimer
  /\ resumeTimer' = FALSE
  /\ timerOlderThanPause' = FALSE
  /\ resume
  /\ UNCHANGED <<cameraMoving, now>>
  /\ UNCHANGED notWMSVars

\* cancelAll()
CancelAll ==
  /\ Commit(cancelAll(Here))
  /\ UNCHANGED <<paused, resumeTimer, timerOlderThanPause, cameraMoving, now>>
  /\ UNCHANGED notWMSVars

\* fetchWMS (lines 175-202), one action per await.
\* await fetch and await res.blob() deliver an ok response; an aborted signal
\* makes them reject instead.
FetchResponds(f) ==
  /\ f \in DOMAIN fetches
  /\ fetches[f].phase = "fetch"
  /\ ~fetches[f].aborted
  /\ fetches' = [fetches EXCEPT ![f].phase = "decode"]
  /\ UNCHANGED <<wmsQueue, requests, queuedRequests, inflight, activeCount,
                 paused, resumeTimer, timerOlderThanPause, cameraMoving, promises, starts, now>>
  /\ UNCHANGED notWMSVars

\* await createImageBitmap resolves (the signal does not reach it): fetchWMS
\* returns the bitmap, and .then and .finally run.
FetchSucceeds(f) ==
  /\ f \in DOMAIN fetches
  /\ fetches[f].phase = "decode"
  /\ Commit(settled(Here, f, TRUE, None))
  /\ UNCHANGED <<paused, resumeTimer, timerOlderThanPause, cameraMoving, now>>
  /\ UNCHANGED notWMSVars

\* An await of the try block rejects (network error, HTTP status, abort,
\* decode error): the catch block rethrows or backs off.
AttemptFails(f) ==
  /\ f \in DOMAIN fetches
  /\ fetches[f].phase \in {"fetch", "decode"}
  /\ IF fetches[f].aborted
       THEN Commit(settled(Here, f, FALSE, "AbortError"))
     ELSE IF fetches[f].attempt >= maxRetries
       THEN Commit(settled(Here, f, FALSE, "FetchError"))
     ELSE /\ fetches' = [fetches EXCEPT ![f].attempt = @ + 1,
                                        ![f].phase = "backoff"]
          /\ UNCHANGED <<wmsQueue, requests, queuedRequests, inflight,
                         activeCount, promises, starts>>
  /\ UNCHANGED <<paused, resumeTimer, timerOlderThanPause, cameraMoving, now>>
  /\ UNCHANGED notWMSVars

\* the backoff timeout fires: the loop continues with the next attempt
BackoffElapses(f) ==
  /\ f \in DOMAIN fetches
  /\ fetches[f].phase = "backoff"
  /\ fetches' = [fetches EXCEPT ![f].phase = "fetch"]
  /\ UNCHANGED <<wmsQueue, requests, queuedRequests, inflight, activeCount,
                 paused, resumeTimer, timerOlderThanPause, cameraMoving, promises, starts, now>>
  /\ UNCHANGED notWMSVars

\* The calls of request() a host makes: at most MaxCalls of them.
RequestNext ==
  /\ Len(promises) < MaxCalls
  /\ \E c \in WMSInputs, priority \in Priorities, dt \in Elapsed :
       Request(c, priority, now + dt)

\* Every operation of the throttler but resumeAfter. The timeout of
\* resumeAfter only calls resume(), which Resume does at any time.
WMSNext ==
  \/ RequestNext
  \/ \E mv \in BOOLEAN : SetCameraMoving(mv)
  \/ Pause
  \/ Resume
  \/ CancelAll
  \/ \E f \in DOMAIN fetches : FetchResponds(f)
  \/ \E f \in DOMAIN fetches : FetchSucceeds(f)
  \/ \E f \in DOMAIN fetches : AttemptFails(f)
  \/ \E f \in DOMAIN fetches : BackoffElapses(f)

\* A host that makes at most MaxFairCalls calls of request(), none with a
\* priority hint.
FairRequestNext ==
  /\ Len(promises) < MaxFairCalls
  /\ \E c \in WMSInputs : Request(c, DefaultPriority, now)

\* request(), pause(), resume(), setCameraMoving() and cancelAll() in any
\* order, and the steps of the fetches they start.
WMSFairNext ==
  \/ FairRequestNext
  \/ \E mv \in BOOLEAN : SetCameraMoving(mv)
  \/ Pause
  \/ Resume
  \/ CancelAll
  \/ \E f \in DOMAIN fetches : FetchResponds(f)
  \/ \E f \in DOMAIN fetches : FetchSucceeds(f)
  \/ \E f \in DOMAIN fetches : AttemptFails(f)
  \/ \E f \in DOMAIN fetches : BackoffElapses(f)

\* Some await of some running fetchWMS settles, or a backoff timeout fires.
FetchSteps ==
  \E f \in DOMAIN fetches :
    FetchResponds(f) \/ FetchSucceeds(f) \/ AttemptFails(f) \/ BackoffElapses(f)

\* pause(), resume() and resumeAfter() in any order, the timeout of
\* resumeAfter, and requests with the steps of their fetches.
WMSTimerNext ==
  \/ FairRequestNext
  \/ Pause
  \/ Resume
  \/ ResumeAfter
  \/ ResumeTimerFires
  \/ \E f \in DOMAIN fetches : FetchResponds(f)
  \/ \E f \in DOMAIN fetches : FetchSucceeds(f)
  \/ \E f \in DOMAIN fetches : AttemptFails(f)
  \/ \E f \in DOMAIN fetches : BackoffElapses(f)

\* Every operation but cancelAll and resumeAfter.
WMSNoCancelNext ==
  \/ RequestNext
  \/ \E mv \in BOOLEAN : SetCameraMoving(mv)
  \/ Pause
  \/ Resume
  \/ \E f \in DOMAIN fetches : FetchResponds(f)
  \/ \E f \in DOMAIN fetches : FetchSucceeds(f)
  \/ \E f \in DOMAIN fetches : AttemptFails(f)
  \/ \E f \in DOMAIN fetches : BackoffElapses(f)

\* request() calls and the progress of the fetches only.
WMSFixedNext ==
  \/ RequestNext
  \/ \E f \in DOMAIN fetches : FetchResponds(f)
  \/ \E f \in DOMAIN fetches : FetchSucceeds(f)
  \/ \E f \in DOMAIN fetches : AttemptFails(f)
  \/ \E f \in DOMAIN fetches : BackoffElapses(f)

\* A burst of requests, one per tile, with the default priority.
BurstRequestNext ==
  /\ Len(promises) < MaxBurst
  /\ Request(BurstInput(Len(promises) + 1), DefaultPriority, now)

\* The burst, cancelAll, and the progress of the fetches.
WMSBurstNext ==
  \/ BurstRequestNext
  \/ CancelAll
  \/ \E f \in DOMAIN fetches : FetchResponds(f)
  \/ \E f \in DOMAIN fetches : FetchSucceeds(f)
  \/ \E f \in DOMAIN fetches : AttemptFails(f)
  \/ \E f \in DOMAIN fetches : BackoffElapses(f)

\* Calls of request() over more keys, to fill the queue.
QueueRequestNext ==
  /\ Len(promises) < MaxQueueCalls
  /\ \E c \in QueueInputs, priority \in Priorities, dt \in Elapsed :
       Request(c, priority, now + dt)

\* request(), pause(), resume() and fetches that succeed.
WMSQueueNext ==
  \/ QueueRequestNext
  \/ Pause
  \/ Resume
  \/ \E f \in DOMAIN fetches : FetchResponds(f)
  \/ \E f \in DOMAIN fetches : FetchSucceeds(f)

\* ---------------- Specifications ----------------
\* The state after construction of both components.
Init == TreeInit /\ WMSInit /\ IncInit /\ NearInit /\ PoolInit

\* TreeLoadScheduler under every operation of its host, camera and loader.
SpecTree == Init /\ [][TreeNext]_vars

\* TreeLoadScheduler when start() is called again and again with the camera
\* and the placements unchanged.
SpecTreeDiff == Init /\ [][TreeDiffNext]_vars

\* TreeLoadScheduler from its passes to rest: every load settles and every
\* timeout fires in the end.
SpecTreeSettle ==
  /\ Init
  /\ [][TreeSettleNext]_vars
  /\ WF_vars(\E item \in pending : LoadSucceeds(item))
  /\ WF_vars(DrainTimerFires)

\* TreeLoadScheduler resolving tiers at the distances of LodPoses.
SpecTreeLOD == Init /\ [][TreeLODNext]_vars

\* loadTreesIncremental under camera moves, cycles and load completions.
SpecInc == Init /\ [][IncNext]_vars

\* A layer streamed by TreeLoadScheduler or by loadTreesIncremental, under
\* every operation of the loader in use.
SpecLoaders == Init /\ [][LoadersNext]_vars

\* ensureNear under camera moves, cycles, load completions and the layer
\* being switched on and off.
SpecNear == Init /\ [][NearNext]_vars

\* ensureNear with the camera at each height of NearHeights.
SpecNearBudget == Init /\ [][NearBudgetNext]_vars

\* A layer streamed by loadTreesIncremental or by ensureNear, under every
\* operation of the loader in use.
SpecAltitude == Init /\ [][AltitudeNext]_vars

\* loadTreesIncremental when every Model.fromGltfAsync settles and every
\* requested animation frame comes.
SpecIncFair ==
  /\ Init /\ [][IncNext]_vars
  /\ WF_vars(CreateSucceeds \/ CreateFails)
  /\ WF_vars(FrameFires)

\* loadTreesIncremental while the camera creeps.
SpecIncCreep == Init /\ [][IncCreepNext]_vars

\* The pooled TreeLoadScheduler, in a scene that destroys the primitives it
\* removes or in one that does not.
InitPooled ==
  /\ TreeInit /\ WMSInit /\ IncInit /\ NearInit /\ PoolFieldsInit
  /\ destroyPrimitives \in BOOLEAN

SpecPool == InitPooled /\ [][PoolNext]_vars

\* WMSThrottler under every operation but resumeAfter.
SpecWMS == Init /\ [][WMSNext]_vars

\* WMSThrottler when every fetch attempt terminates (the network answers or
\* fails, timeouts fire) and a paused throttler is resumed at some time.
SpecWMSFair ==
  Init /\ [][WMSFairNext]_vars /\ WF_vars(FetchSteps) /\ WF_vars(Resume)

\* WMSThrottler under pause(), resume() and resumeAfter().
SpecWMSTimer == Init /\ [][WMSTimerNext]_vars

\* WMSThrottler when cancelAll is never called.
SpecWMSNoCancel == Init /\ [][WMSNoCancelNext]_vars

\* WMSThrottler with the camera state fixed (either way) before the first
\* request, under request() calls and fetch completions.
InitFixedCamera == TreeInit /\ IncInit /\ NearInit /\ PoolInit /\ \E mv \in BOOLEAN : WMSConstructed(mv)

SpecWMSFixed == InitFixedCamera /\ [][WMSFixedNext]_vars

\* WMSThrottler while its queue fills and drains: no failures, no cancelAll.
SpecWMSQueue == Init /\ [][WMSQueueNext]_vars

\* WMSThrottler under a burst of requests for distinct tiles and cancelAll.
SpecWMSBurst == Init /\ [][WMSBurstNext]_vars

(***************************************************************************)
(*                     Properties of TreeLoadScheduler                     *)
(***************************************************************************)

\* The item's model is in the scene and recorded in live, and was not there
\* before the step.
Installed(item) ==
  /\ Has(live', item.fid)
  /\ live'[item.fid].url = item.url
  /\ live'[item.fid].lod = item.lod
  /\ live'[item.fid].model \in scene'
  /\ live'[item.fid].model \notin scene
  /\ ~(Has(live, item.fid) /\ live[item.fid].model = live'[item.fid].model)

\* C1: a load that completes successfully is installed (its model added to the
\* scene and recorded in live) iff item.version = lodVersion and visible at
\* that moment; otherwise it changes neither live nor the scene.
C1_InstalledIffCurrent ==
  [][ \A item \in pending :
        LoadSucceeds(item) =>
          IF item.version = lodVersion /\ visible
            THEN Installed(item)
            ELSE live' = live /\ scene' = scene ]_vars

ModelsOf(fid) == { m \in scene : m.fid = fid }

\* C2: for every fid at most one LiveEntry (live is a map keyed by fid) and at
\* most one model of that fid is attached to the scene; a load that completes
\* for a fid that has a LiveEntry removes the old model from the scene when it
\* adds the new one.
C2_AtMostOneResident ==
  /\ [](\A fid \in Fids : Cardinality(ModelsOf(fid)) <= 1)
  /\ [][ \A item \in pending :
          (LoadSucceeds(item) /\ Has(live, item.fid) /\ scene' \ scene # {})
            => live[item.fid].model \notin scene' ]_vars

\* A second model of fid "a" has replaced the first one: it is in live and it
\* is the only model of the fid in the scene.
C2_Witness ==
  /\ Has(live, "a")
  /\ live["a"].model.n = 2
  /\ ModelsOf("a") = {live["a"].model}

\* C11: at most one stability timer is pending, and moving is true exactly
\* while one is; a moveStart event runs no updateLOD (it changes nothing but
\* moving and the timer), and the firing of the timer leaves no timer pending,
\* clears moving and runs updateLOD once (one enqueueing pass when visible).
C11_Debounced ==
  /\ [](stableTimer <= 1)
  /\ [](moving <=> stableTimer > 0)
  /\ [][ OnMove => UNCHANGED <<live, scene, queue, pending, loading, lodVersion>> ]_vars
  /\ [][ StableTimerFires =>
           /\ stableTimer' = 0
           /\ ~moving'
           /\ lodVersion' = IF visible THEN lodVersion + 1 ELSE lodVersion ]_vars

\* After a completed cycle the camera has moved again: one timer is pending.
C11_Witness ==
  /\ lodVersion >= 1
  /\ moving
  /\ stableTimer = 1

\* C12: while the camera is moving the scheduler only removes: no queue item
\* is started (pending gains no load) and no model is added to the scene.
C12_MovingOnlyRemoves ==
  [][ (moving /\ moving') => (pending' \subseteq pending /\ scene' \subseteq scene) ]_vars

\* live holds exactly the fids of the keep-set of a pass made with the camera
\* where it is now, each with the url and the LOD that pass resolves, and
\* nothing is queued or loading.
Converged ==
  LET hits == queryTrees(camera)
  IN  /\ queue = <<>>
      /\ loading = 0
      /\ DOMAIN live = { hits[k].t.fid : k \in 1..Len(hits) }
      /\ \A k \in 1..Len(hits) :
           /\ live[hits[k].t.fid].url = resolveLOD(hits[k].t, hits[k].d).url
           /\ live[hits[k].t.fid].lod = resolveLOD(hits[k].t, hits[k].d).lod

\* C13: after a pass made with the camera settled and visible, with no camera
\* movement, setVisible, destroy or load failure afterwards, the scheduler
\* eventually has an empty queue, no load in flight, and live equal to the
\* keep-set of the pass with the urls and LODs it resolved.
C13_Converges ==
  (lodVersion = MaxVersion) ~> Converged

\* Converged on two trees after the last pass, made from another pose than
\* the first.
C13_Witness ==
  /\ lodVersion = MaxVersion
  /\ camera # InitialPose
  /\ Converged
  /\ Cardinality(DOMAIN live) = 2

\* C14: a second diff pass with the same camera pose and the same placements
\* leaves the queue empty, whether or not the loads of the first pass have
\* completed (in SpecTreeDiff every pass after the first is such a pass).
C14_SecondPassQueuesNothing ==
  lodVersion >= 2 => queue = <<>>

Stamped == { it \in pending' \cup Range(queue') : it.version = lodVersion' }

\* C16: for every placement within the streaming radius, resolveLOD gives
\* tier high exactly when its distance is below 70 m, medium exactly when it is
\* at least 70 m and below 200 m, and low exactly when it is 200 m or more; and
\* every item a pass enqueues or starts carries the tier of the placement's
\* distance from the camera at that pass.
C16_TierByDistance ==
  /\ [](\A t \in index :
          LET d == distance(camera.x, t.pos)
              r == resolveLOD(t, d).lod
          IN  d <= 700 =>
                /\ (r = "high") <=> (d < 70)
                /\ (r = "medium") <=> (70 <= d /\ d < 200)
                /\ (r = "low") <=> (d >= 200))
  /\ [][ lodVersion' # lodVersion =>
           \A it \in Stamped :
             LET d == distance(camera.x, MetaOf(it.meta).pos)
             IN  /\ (it.lod = "high") <=> (d < 70)
                 /\ (it.lod = "medium") <=> (70 <= d /\ d < 200)
                 /\ (it.lod = "low") <=> (d >= 200) ]_vars

\* The camera is 150 m from tree "a" and 50 m from tree "b", and both are
\* installed at the tier of that distance.
C16_Witness ==
  /\ camera.x = 150
  /\ Has(live, "a") /\ live["a"].lod = "medium"
  /\ Has(live, "b") /\ live["b"].lod = "high"

\* The URL of the first tier, from lod towards coarser, that t has a URL for.
NextCoarserUrl(t, lod) ==
  IF lod = "high"
    THEN Coalesce(t.urlHigh, Coalesce(t.urlMedium, t.urlLow))
  ELSE IF lod = "medium"
    THEN Coalesce(t.urlMedium, t.urlLow)
  ELSE t.urlLow

\* C17: every item a pass has queued or started carries the URL of its own
\* tier when the placement has one, and otherwise the URL of the next coarser
\* tier the placement has a URL for: high falls back to medium, and to low
\* only when medium is missing too; medium falls back to low.
C17_FallsBackToNextCoarser ==
  \A it \in pending \cup Range(queue) :
    it.url = NextCoarserUrl(MetaOf(it.meta), it.lod)

\* An item of a batch that the for loop will not skip.
Needed(it) ==
  /\ ~(Has(incLive, it.fid) /\ incLive[it.fid].url = it.url)
  /\ dMeters(camera.x, it.pos) <= INC_RADIUS_M

C19_VersionStampsQueue ==
  /\ [][ lodVersion' = lodVersion \/ lodVersion' = lodVersion + 1 ]_vars
  /\ [][ ((Start \/ StableTimerFires) /\ visible /\ ~moving') =>
            lodVersion' = lodVersion + 1 ]_vars
  /\ [][ (\E it \in Range(queue') \cup pending' : it \notin Range(queue) \cup pending) =>
            lodVersion' = lodVersion + 1 ]_vars
  /\ [](\A it \in Range(queue) : it.version = lodVersion)
  /\ [](\A it \in pending : it.version <= lodVersion)

\* A second pass has run while all three slots were busy: its items wait in
\* the queue under the new version and the loads in flight are stale.
C19_Witness ==
  /\ lodVersion = 2
  /\ queue # <<>>
  /\ \E it \in pending : it.version = 1

\* C21: a pass removes the entries outside its keep set before it enqueues
\* or starts anything, so right after a pass live is within its keep set; and
\* from then on, until the next pass, every fid in live belongs to the keep
\* set of the most recent pass: no load completion installs a fid outside it.
C21_LiveWithinLastKeep ==
  /\ [][ (Start \/ StableTimerFires) => DOMAIN live' \subseteq lastKeep' ]_vars
  /\ [](DOMAIN live \subseteq lastKeep)

\* The height above ground ensureNear is to work with: never negative.
ClampedAGL == IF camera.h < 0 THEN 0 ELSE camera.h

\* The placements within the sphere of radius 700 around the camera: their
\* distance d to the view centre satisfies d*d + camAGL*camAGL <= 700*700.
WithinSphere ==
  { t.fid : t \in { u \in NearTrees :
      Abs(camera.x - u.pos) * Abs(camera.x - u.pos) + ClampedAGL * ClampedAGL
        <= 700 * 700 } }

C23_TooHighStreamsNothing ==
  /\ [][ (incCycles' # incCycles /\ camera.h >= 700) =>
           /\ treeQueue' = <<>>
           /\ Range(creating') \cup Range(batch') \subseteq Range(creating) \cup Range(batch)
           /\ incLive' = EmptyMap
           /\ incScene' = {} ]_vars
  /\ [][ (nearCycles' # nearCycles /\ camera.h >= 700) =>
           /\ nearTasks' \subseteq nearTasks
           /\ \A f \in DOMAIN nearLive' : ~nearLive'[f].show ]_vars

\* A cycle run now would be rejected: the camera is less than MOVE_THRESHOLD
\* (70 m) from the position of the last accepted cycle.
TooClose == lastPos # <<>> /\ Abs(camera.x - lastPos[1]) < 70

\* C24: a cycle of loadTreesIncremental triggered less than 70 m from the
\* position of the last accepted cycle changes nothing (live, the scene, the
\* queue and the recorded position stay as they are) and the lock is free
\* afterwards; the recorded position changes only in a cycle that is not too
\* close, which records where the camera is; and whenever the camera is not
\* too close (or no cycle has run yet) a cycle is accepted and records the
\* position, however small the moves that brought the camera there.
C24_SmallMovesRejected ==
  /\ [][ (IncUpdateLOD /\ TooClose) =>
           UNCHANGED <<incLive, incScene, treeQueue, batch, creating, lastPos>> ]_vars
  /\ [](~lock)
  /\ [][ lastPos' # lastPos =>
           (IncUpdateLOD /\ ~TooClose /\ lastPos' = <<camera.x>>) ]_vars
  /\ []((~TooClose /\ incCycles < MaxCycles) =>
          ENABLED (IncUpdateLOD /\ lastPos' = <<camera.x>> /\ incCycles' = incCycles + 1))

\* The camera has crept from 0 to 100 m in moves of 50 m and the cycle at
\* 100 m was accepted after the one at 0.
C24_Witness ==
  /\ incCycles = 2
  /\ lastPos = <<100>>
  /\ camera.x = 100

\* C29: loadTreesIncremental runs one drain loop at a time: a cycle accepted
\* while the loop is running replaces treeQueue without touching the loop
\* (the item being created and the rest of its batch stay, queueLock stays
\* set); a non-empty treeQueue always has the loop running; the loop has no
\* position while queueLock is false; and a running loop always comes to its
\* end with the queue empty, so every item of the latest queue has been
\* created or skipped.
C29_SingleDrainLoop ==
  /\ [][ (incCycles' # incCycles /\ queueLock) =>
           (queueLock' /\ creating' = creating /\ batch' = batch) ]_vars
  /\ [](treeQueue # <<>> => queueLock)
  /\ [](~queueLock => (creating = <<>> /\ batch = <<>>))
  /\ (queueLock ~> (~queueLock /\ treeQueue = <<>>))

\* A cycle has replaced the queue while the loop awaits a createTree.
C29_Witness ==
  /\ queueLock
  /\ creating # <<>>
  /\ treeQueue # <<>>

\* C28: in TreeLoadScheduler loading stays within 0..MAX_CONCURRENT (3) and
\* counts the loads in flight: loads are started only while loading is below
\* MAX_CONCURRENT, every load that settles (installed, failed or discarded)
\* takes one off loading and schedules a processQueue, and a non-empty queue
\* always has every slot busy or a processQueue scheduled.
C28_LoadingWithinBudget ==
  /\ [](loading \in 0..3)
  /\ [](loading = Cardinality(pending))
  /\ [][ pending' \ pending # {} => loading < 3 ]_vars
  /\ [][ pending \ pending' # {} =>
           (/\ Cardinality(pending \ pending') = 1
            /\ loading' = loading - 1
            /\ drainTimer') ]_vars
  /\ [](queue # <<>> => (loading = 3 \/ drainTimer))

\* Three loads of an earlier pass are in flight and the items of the latest
\* pass wait in the queue.
C28_Witness ==
  /\ loading = 3
  /\ queue # <<>>
  /\ \A it \in pending : it.version < lodVersion

\* C27: in the lock-based loaders a cycle never starts while the previous
\* cycle's diff or drain is in progress: loadTreesIncremental accepts a cycle
\* only while neither its lock nor its drain loop is held, ensureNear only
\* while no step of the previous cycle is pending; an attempt made while the
\* busy flag is set changes neither queue, live nor scene; and the flag is
\* free whenever no cycle is in progress.
C27_NoCycleWhileBusy ==
  /\ [][ incCycles' # incCycles => (~lock /\ ~queueLock) ]_vars
  /\ [][ nearCycles' # nearCycles =>
           (~inProgress /\ nearPhase = "idle" /\ nearTasks = {}) ]_vars
  /\ [][ (IncUpdateLOD /\ lock) => UNCHANGED <<treeQueue, incLive, incScene>> ]_vars
  /\ [][ (EnsureNear /\ inProgress) => UNCHANGED <<nearLive, nearTasks>> ]_vars
  /\ [](~lock)
  /\ [](nearPhase = "idle" => ~inProgress)

\* The models a LiveEntry of the pooled scheduler refers to, and those in
\* modelPool.
LiveModels == { live[f].model : f \in DOMAIN live }

PooledModels ==
  UNION { { modelPool[k][i] : i \in 1..Len(modelPool[k]) } : k \in DOMAIN modelPool }

\* C25: in the pooled scheduler no model is leaked: between handlers, every
\* model that loadTree constructed and that has not been destroyed is either
\* referenced by a LiveEntry and attached to the scene, or idle in the pool
\* and detached, and never both or neither.
C25_NoModelLeaked ==
  \A m \in made \ destroyed :
    (m \in LiveModels /\ m \in scene) # (m \in PooledModels /\ m \notin scene)

\* C26: in the pooled scheduler ownership is exclusive: no model is in the
\* pool and in a LiveEntry at once, none is twice in the pool, none is in two
\* LiveEntries, whatever removal batches are pending.
C26_ExclusiveOwnership ==
  /\ LiveModels \cap PooledModels = {}
  /\ \A k1, k2 \in DOMAIN modelPool :
       \A i \in 1..Len(modelPool[k1]) : \A j \in 1..Len(modelPool[k2]) :
         modelPool[k1][i] = modelPool[k2][j] => (k1 = k2 /\ i = j)
  /\ \A f, g \in DOMAIN live : live[f].model = live[g].model => f = g

(***************************************************************************)
(*                       Properties of WMSThrottler                        *)
(***************************************************************************)

\* The fetches of a key that have started and whose completion handlers have
\* not run yet.
FetchesOf(key) == { f \in DOMAIN fetches : fetches[f].key = key }

\* The fetches that have started, have not been aborted, and whose completion
\* handlers have not run yet.
Running(fs) == { f \in DOMAIN fs : ~fs[f].aborted }

\* C3: under request() calls and fetch completions, with the camera state
\* fixed and cancelAll never called, the number of fetches in flight never
\* exceeds currentLimit().
C3_InFlightWithinLimit ==
  /\ Cardinality(DOMAIN fetches) <= currentLimit(cameraMoving)
  /\ activeCount <= currentLimit(cameraMoving)

\* The camera moves, the one slot is taken and a request waits in the queue.
C3_Witness ==
  /\ cameraMoving
  /\ Cardinality(DOMAIN fetches) = currentLimit(cameraMoving)
  /\ Len(wmsQueue) > 0

\* The promises of the run of overlapping calls that call g began.
GroupOf(g) == { p \in DOMAIN promises : promises[p].group = g }

\* C4: the calls of request() for one key made while the first of them is
\* queued or in flight cause exactly one fetch, and all of them settle
\* together, with the outcome of that fetch (or with the cancellation error
\* of cancelAll).
C4_OneFetchPerGroup ==
  \A g \in DOMAIN promises :
    /\ Cardinality(starts \cap GroupOf(g)) <= 1
    /\ \A p \in GroupOf(g) :
         /\ promises[p].state = promises[g].state
         /\ promises[p].by = promises[g].by
         /\ promises[p].err = promises[g].err
         /\ promises[p].state # "pending" =>
              \/ promises[p].by = 0 /\ promises[p].err = "Cancelled"
              \/ promises[p].by \in starts \cap GroupOf(g)

\* C5: for every key at most one fetch has started and not yet finished
\* running its completion handlers, under any interleaving of request(),
\* completions and cancelAll.
C5_OneLiveFetchPerKey ==
  \A f \in DOMAIN fetches : FetchesOf(fetches[f].key) = {f}

\* The promises cancelAll has to reject: those of the in-flight entries and
\* those of the queued requests and their waiters.
Cancellable ==
  UNION { Range(inflight[k].promises) : k \in DOMAIN inflight }
    \cup UNION { {r} \cup Range(requests[r].waiters) : r \in Range(wmsQueue) }

\* What cancelAll does to the promises and to the throttler's collections.
CancelAllClears ==
  /\ \A p \in Cancellable :
       promises[p].state = "pending" =>
         /\ promises'[p].state = "rejected"
         /\ promises'[p].err = "Cancelled"
  /\ \A p \in DOMAIN promises :
       promises[p].state # "pending" => promises'[p] = promises[p]
  /\ Pending(promises') = {}
  /\ wmsQueue' = <<>>
  /\ queuedRequests' = EmptyMap
  /\ inflight' = EmptyMap
  /\ activeCount' = 0

\* C6: cancelAll aborts every in-flight fetch, rejects every queued request,
\* every waiter of a queued request and every waiter of an in-flight fetch
\* with the cancellation error, and leaves queue, queuedRequests and inflight
\* empty and activeCount 0.
C6_CancelAllAbortsAndRejects ==
  [][ CancelAll => (CancelAllClears /\ Running(fetches') = {}) ]_vars

\* The promises of the queued requests and of their waiters.
QueuedPromises ==
  UNION { {r} \cup Range(requests[r].waiters) : r \in Range(wmsQueue) }

\* C7: while paused no queued request is started, and none is rejected or
\* removed from the queue (other than by cancelAll); a fetch in flight still
\* completes, giving back its slot; resume() starts queued requests until the
\* queue is empty or the concurrency limit is reached, and never takes the
\* number of running fetches beyond the limit.
C7_PauseHoldsQueue ==
  /\ [][ (paused /\ paused' /\ ~CancelAll) =>
           /\ starts' = starts
           /\ Range(wmsQueue) \subseteq Range(wmsQueue')
           /\ \A p \in QueuedPromises : promises'[p].state = "pending" ]_vars
  /\ [][ paused =>
           \A f \in DOMAIN fetches :
             FetchSucceeds(f) =>
               /\ f \notin DOMAIN fetches'
               /\ activeCount' = activeCount - 1 ]_vars
  /\ [][ (paused /\ ~paused') =>
           /\ \/ wmsQueue' = <<>>
              \/ activeCount' >= currentLimit(cameraMoving')
           /\ starts' # starts =>
                Cardinality(Running(fetches')) <= currentLimit(cameraMoving') ]_vars

\* The request popRequest() would return.
Top == popRequest(Here).top

\* C8: the next request started is the queued one with the smallest priority
\* value, and among equal priorities the most recently created one.
C8_MostUrgentNewestFirst ==
  Len(wmsQueue) > 0 =>
    \A r \in Range(wmsQueue) :
      /\ Top.priority <= requests[r].priority
      /\ (Top.priority = requests[r].priority /\ r # Top.id) => Top.id > r

\* The heap property of queue under compare, with heapIndex in step.
HeapOrdered ==
  /\ \A i \in 1..(Len(wmsQueue) - 1) :
       compare(requests, At(wmsQueue, i), At(wmsQueue, (i - 1) \div 2)) >= 0
  /\ \A i \in 0..(Len(wmsQueue) - 1) : requests[At(wmsQueue, i)].heapIndex = i

\* C9: the priority value of a queued key never increases: a request() for a
\* key already queued sets it to min(existing, new), attaches the caller as a
\* waiter of the queued request instead of enqueueing the key again, and
\* restores the heap order.
C9_PriorityOnlyRaised ==
  /\ [][ \A r \in Range(wmsQueue) \cap Range(wmsQueue') :
           requests'[r].priority <= requests[r].priority ]_vars
  /\ [][ \A c \in QueueInputs, priority \in Priorities, at \in 0..MaxNow :
           LET key == buildKey(c.url, c.params)
           IN  (Request(c, priority, at) /\ Has(queuedRequests, key)
                  /\ ~Has(inflight, key)) =>
                 LET r == queuedRequests[key]
                 IN  /\ Range(wmsQueue') = Range(wmsQueue)
                     /\ requests'[r].priority = Min({requests[r].priority, priority})
                     /\ requests'[r].waiters =
                          Append(requests[r].waiters, Len(promises'))
                     /\ Len(promises') = Len(promises) + 1 ]_vars
  /\ [](\A i, j \in 1..Len(wmsQueue) :
          requests[wmsQueue[i]].key = requests[wmsQueue[j]].key => i = j)
  /\ []HeapOrdered

\* A queued request with a waiter is at the root of the heap, ahead of a
\* request created after it that has a larger priority value.
C9_Witness ==
  /\ Len(wmsQueue) >= 2
  /\ requests[wmsQueue[1]].waiters # <<>>
  /\ \E i \in 2..Len(wmsQueue) :
       /\ requests[wmsQueue[i]].priority > requests[wmsQueue[1]].priority
       /\ requests[wmsQueue[i]].createdAt > requests[wmsQueue[1]].createdAt

\* C10: a fetch makes at most 3 attempts; a failed attempt is retried only
\* while fewer than 2 retries have been made and the fetch has not been
\* aborted; the failure of the third attempt is delivered to every waiter of
\* the key and a success resolves every waiter; the inflight entry and the
\* slot of a fetch that has not been aborted are held from the first attempt
\* to the last, backoff included.
C10_RetriesAndDelivery ==
  /\ [](\A f \in DOMAIN fetches : fetches[f].attempt + 1 <= 3)
  /\ [](\A f \in Running(fetches) :
          /\ Has(inflight, fetches[f].key)
          /\ inflight[fetches[f].key].controller = f)
  /\ [](Running(fetches) # {} => activeCount >= Cardinality(Running(fetches)))
  /\ [][ \A f \in Running(fetches) :
           AttemptFails(f) =>
             IF fetches[f].attempt < 2
               THEN /\ f \in DOMAIN fetches'
                    /\ fetches'[f].attempt = fetches[f].attempt + 1
                    /\ fetches'[f].phase = "backoff"
                    /\ promises' = promises
                    /\ inflight' = inflight
                    /\ activeCount' = activeCount
               ELSE /\ f \notin DOMAIN fetches'
                    /\ \A p \in Range(inflight[fetches[f].key].promises) :
                         /\ promises'[p].state = "rejected"
                         /\ promises'[p].by = f
                         /\ promises'[p].err = "FetchError" ]_vars
  /\ [][ \A f \in Running(fetches) :
           FetchSucceeds(f) =>
             \A p \in Range(inflight[fetches[f].key].promises) :
               promises'[p].state = "resolved" /\ promises'[p].by = f ]_vars

\* C20: under any interleaving of request(), setCameraMoving(), pause(),
\* resume(), cancelAll() and fetch completions, a step that starts fetches
\* leaves no more fetches running (started, not aborted, not completed) than
\* currentLimit() allows at that moment, and the number of running fetches
\* never exceeds maxConcurrentIdle.
C20_StartsWithinLimit ==
  /\ [][ starts' # starts =>
           Cardinality(Running(fetches')) <= currentLimit(cameraMoving') ]_vars
  /\ [](Cardinality(Running(fetches)) <= maxConcurrentIdle)


\* C30: in WMSThrottler no key is both queued and in flight; queuedRequests
\* holds exactly the keys of the requests in the heap array, each once, and
\* maps each to its request; every queued request's heapIndex is its position
\* in the array; and every request that leaves the array, other than by
\* cancelAll, is started (processQueue pops none whose key is in flight).
C30_QueueBookkeeping ==
  /\ [](DOMAIN queuedRequests \cap DOMAIN inflight = {})
  /\ [](DOMAIN queuedRequests = { requests[id].key : id \in Range(wmsQueue) })
  /\ [](Cardinality(DOMAIN queuedRequests) = Len(wmsQueue))
  /\ [](\A i \in 1..Len(wmsQueue) :
          /\ requests[wmsQueue[i]].heapIndex = i - 1
          /\ queuedRequests[requests[wmsQueue[i]].key] = wmsQueue[i])
  /\ [][ ~CancelAll => Range(wmsQueue) \ Range(wmsQueue') \subseteq starts' ]_vars

\* A request waits in the heap, with a waiter coalesced onto it, while the
\* fetch for another key is in flight.
C30_Witness ==
  /\ Len(wmsQueue) = 1
  /\ requests[wmsQueue[1]].waiters # <<>>
  /\ DOMAIN inflight # {}
  /\ DOMAIN inflight \subseteq { fetches[f].key : f \in DOMAIN fetches }

\* C31: in WMSThrottler activeCount is never negative and is the number of
\* entries of the inflight map between operations, also after cancelAll()
\* when the handlers of the aborted fetches run.
C31_ActiveCountIsInflight ==
  /\ activeCount >= 0
  /\ activeCount = Cardinality(DOMAIN inflight)

\* C32: when the completion handlers of a fetch that cancelAll() aborted run,
\* they settle no promise that is still pending (every such promise was
\* returned after that cancelAll()) and they leave every entry of the inflight
\* map in place: a newer request, also one for the same key, is settled only
\* by a fetch started after the cancelAll().
C32_LateHandlersLeaveNewerAlone ==
  [][ \A f \in DOMAIN fetches :
        (fetches[f].aborted /\ f \notin DOMAIN fetches') =>
          /\ \A p \in Pending(promises) :
               promises'[p].state = "pending" \/ promises'[p].by # f
          /\ \A k \in DOMAIN inflight :
               k \in DOMAIN inflight' /\ inflight'[k] = inflight[k] ]_vars

\* C33: every promise returned by request() is settled once (a settled
\* promise keeps its state, the fetch that settled it and its error) and is
\* eventually settled, when every fetch attempt terminates and the throttler
\* does not stay paused.
C33_SettledOnceEventually ==
  /\ [][ \A p \in DOMAIN promises :
           promises[p].state # "pending" => promises'[p] = promises[p] ]_vars
  /\ (Pending(promises) # {}) ~> (Pending(promises) = {})

\* Every call was made; one promise was resolved by its fetch and another was
\* rejected by cancelAll(), and none is pending.
C33_Witness ==
  /\ Len(promises) = MaxFairCalls
  /\ Pending(promises) = {}
  /\ \E p \in DOMAIN promises : promises[p].state = "resolved"
  /\ \E p \in DOMAIN promises : promises[p].err = "Cancelled"

\* C34: a throttler that pause() has paused is resumed by resume() or by the
\* timeout of a resumeAfter() call made after the latest pause() call; the
\* timeout of a resumeAfter() call made before a pause() call, also one made
\* while the throttler was paused already, never resumes it.
C34_PauseCancelsTimer ==
  [][ (paused /\ ~paused' /\ resumeTimer /\ ~resumeTimer') =>
        ~timerOlderThanPause ]_vars

\* C35: once destroy() has emptied live and the scene, no later step of the
\* scheduler's own (the stability timeout, a queue timeout, the completion
\* of a load that was in flight) adds a LiveEntry or a model.
C35_NothingAfterDestroy ==
  [][ ( /\ ~listening /\ live = EmptyMap /\ scene = {}
        /\ \/ stableTimer' < stableTimer
           \/ drainTimer /\ ~drainTimer'
           \/ loading' < loading )
      => (live' = EmptyMap /\ scene' = {}) ]_vars

\* C36: live and the scene agree: the model of every LiveEntry is attached to
\* the scene, and every attached model is the model of exactly one LiveEntry.
C36_LiveMatchesScene ==
  /\ \A fid \in DOMAIN live : live[fid].model \in scene
  /\ \A m \in scene :
       Cardinality({ fid \in DOMAIN live : live[fid].model = m }) = 1

\* C37: in loadTreesIncremental every model attached to the scene is the model
\* that live records for its fid, so no fid has two models attached.
C37_OneModelPerFid ==
  \A m \in incScene :
    /\ Has(incLive, m.fid) /\ incLive[m.fid].model = m
    /\ \A o \in incScene : o.fid = m.fid => o = m

\* The fids of the items updateLOD has queued and the loop has not finished
\* with: in treeQueue, in the current batch or in createTree.
IncWaiting(q, b, c) ==
  { q[k].fid : k \in 1..Len(q) } \cup { b[k].fid : k \in 1..Len(b) }
    \cup { c[k].fid : k \in 1..Len(c) }

\* C38: when the latest cycle removed every tree because the camera was
\* above INC_RADIUS_M and the camera is within INC_RADIUS_M of the terrain
\* again, a call of updateLOD runs a cycle that queues every placement in
\* range that is not live, whatever the horizontal distance to the position of the clearing
\* cycle.
C38_DescentReloads ==
  (clearedAll /\ ~lock /\ camera.h <= INC_RADIUS_M /\ incCycles < MaxCycles) =>
    ENABLED ( /\ IncUpdateLOD
              /\ incCycles' = incCycles + 1
              /\ \A k \in 1..Len(IncHits(camera)) :
                   \/ Has(incLive', IncHits(camera)[k].fid)
                   \/ IncHits(camera)[k].fid \in
                        IncWaiting(treeQueue', batch', creating') )

\* C39: a removeBatch timeout of the pooled scheduler removes from live no
\* entry whose fid is in the keep set of the most recent updateLOD pass, and
\* leaves the model of such an entry in the scene.
C39_BatchSparesKeepSet ==
  [][ ( /\ removeTimers # <<>>
        /\ removeTimers' # removeTimers
        /\ Len(removeTimers') <= Len(removeTimers) )
      => \A fid \in DOMAIN live \cap lastKeep :
           /\ Has(live', fid)
           /\ live[fid].model \in scene => live[fid].model \in scene' ]_vars

=============================================================================
